---- MODULE Spec2Model ----
(***************************************************************************)
(* ZeroTier VL1 core: the Topology peer and path databases under           *)
(* concurrent callers (SpecPaths, SpecPeers) and the VL1 ingress pipeline  *)
(* onRemotePacket with its helpers, fed with datagrams of every kind       *)
(* (Spec), with HELLOs (SpecHello), with the parts of fragmented packets   *)
(* (SpecFragments) and with probes (SpecProbe); the verb handlers called   *)
(* on their own (SpecVerbs); the locks the calls take (SpecLocks); the     *)
(* methods of one Peer under concurrent callers (SpecPeerCalls,            *)
(* SpecReset); exceptions during ingress (SpecThrowing); the Locator      *)
(* (SpecLocator); the WHOIS handler (SpecWhois) and the WHOIS queue under *)
(* concurrent callers, with any buffer size and with and without a root   *)
(* (SpecWhoisQueue, SpecWhoisSend, SpecWhoisRoot); and the Trace emitters *)
(* (SpecTrace).                                                            *)
(*                                                                         *)
(* Time is counted in abstract ticks; the protocol intervals are scaled   *)
(* to a few ticks each.  The wall clock starts at StartTime, which is not *)
(* smaller than any interval, as the real millisecond clock is.           *)
(***************************************************************************)
EXTENDS Integers, Sequences, FiniteSets, TLC

(***************************************************************************)
(* Bounds of the model.                                                    *)
(***************************************************************************)
NumThreads == 2
MaxObjects == 4
MaxNow == 4
MaxDeliveries == 2
MaxSeries == 3
MaxVerbCalls == 3
MaxPeerCalls == 3
MaxTimestamp == 2

(***************************************************************************)
(* Bit arithmetic on naturals, as the C++ operators compute it.           *)
(***************************************************************************)
RECURSIVE XOR(_, _)
XOR(a, b) ==
    IF a = 0 THEN b
    ELSE IF b = 0 THEN a
    ELSE (((a % 2) + (b % 2)) % 2) + (2 * XOR(a \div 2, b \div 2))

ShiftLeft16(x) == x * 65536

(***************************************************************************)
(* Socket address families and the physical addresses of the model.       *)
(* An InetAddress is [family, addr, port]; addr is s_addr for AF_INET and *)
(* the pair of 64-bit words of s6_addr for AF_INET6.                      *)
(***************************************************************************)
AF_INET == 2
AF_INET6 == 10

V4(a, p) == [family |-> AF_INET, addr |-> <<a>>, port |-> p]
V6(w0, w1, p) == [family |-> AF_INET6, addr |-> <<w0, w1>>, port |-> p]

\* 64-bit keys are pairs <<high 32 bits, low 32 bits>>.  Local sockets and
\* ports of the model stay below 2^15, so no carry or wrap occurs.
s_getPathKey(l, r) ==
    IF r.family = AF_INET
    THEN <<r.addr[1], XOR(ShiftLeft16(r.port), l)>>
    ELSE <<0, r.addr[1] + r.addr[2] + r.port + l>>

(***************************************************************************)
(* ZeroTier addresses and identities.  An identity is [addr, pub, valid]: *)
(* its address, its public key material, and whether locallyValidate()    *)
(* succeeds on it.                                                         *)
(***************************************************************************)
SelfAddr == "self"
AddrK == "K"
AddrU == "U"
AddrV == "V"
AddrR == "R"
AddrOther == "other"

Ident(a, k, v) == [addr |-> a, pub |-> k, valid |-> v]
NIL == Ident("nil", 0, FALSE)
IdK == Ident(AddrK, 1, TRUE)
IdKImposter == Ident(AddrK, 2, TRUE)
IdU == Ident(AddrU, 3, TRUE)
IdV == Ident(AddrV, 4, TRUE)
IdVInvalid == Ident(AddrV, 5, FALSE)
IdR == Ident(AddrR, 6, TRUE)

NoPath == [id |-> 0]
NoPeer == [id |-> 0]

\* new Path(l,r)
NewPath(id, l, r) == [id |-> id, l |-> l, r |-> r, lastReceive |-> 0, latency |-> -1]

\* new Peer(RR) followed by init(identity) or unmarshal()
NewPeer(id, identity) ==
    [id |-> id, identity |-> identity, m_probe |-> 0, m_vProto |-> 0,
     m_lastReceive |-> 0, m_lastProbeReceived |-> 0,
     m_lastEchoRequestReceived |-> 0, m_lastWhoisRequestReceived |-> 0,
     m_lastPrioritizedPaths |-> 0, m_paths |-> <<>>, m_tryQueue |-> <<>>]

\* The peers whose serialized record the host's state store holds.
CachedIdentities == {IdU}

\* m_loadCached: a Peer deserialized from the state store, or none.
m_loadCached(zta, id) ==
    IF \E i \in CachedIdentities : i.addr = zta
    THEN NewPeer(id, CHOOSE i \in CachedIdentities : i.addr = zta)
    ELSE NoPeer

(***************************************************************************)
(* Arguments the concurrent callers of Topology use.  TopoPathArgs holds  *)
(* pairs with equal composite keys: (65536, 1.0.0.0:0) and (0, 1.0.0.0:1) *)
(* for AF_INET, (1, ::1 port 0) and (0, ::1 port 1) for AF_INET6.         *)
(***************************************************************************)
TopoPathArgs ==
    { <<65536, V4(1, 0)>>, <<0, V4(1, 1)>>,
      <<0, V6(0, 1, 1)>>, <<1, V6(0, 1, 0)>> }
TopoAddrs == {AddrK, AddrU}
TopoIdentities == {IdK, IdU}

\* Local sockets and physical addresses datagrams arrive on: the root's
\* address and that of some other host.
LocalSockets == {0}
PhysR == V4(2, 793)
PhysX == V4(3, 793)
FromAddrs == {PhysR, PhysX}
IngressPathArgs == LocalSockets \X FromAddrs

VARIABLES
    m_paths,      \* Topology::m_paths: composite key -> Path or NoPath
    m_peers,      \* Topology::m_peers: Address -> Peer or NoPeer
    nextObj,      \* number of heap objects allocated so far
    tpc,          \* per thread: position inside the Topology or Peer call it runs
    targ,         \* per thread: arguments of the running call
    tnew,         \* per thread: the object the call constructed
    pathRet,      \* history: (l,r) -> ids of the Paths returned for it
    peerRet,      \* history: Address -> ids of the Peers returned for it
    firstPeer,    \* history: Address -> id of the first Peer inserted
    now,          \* RR->node->now()
    delivered,    \* number of datagrams handed to onRemotePacket so far
    m_rootPeers,  \* Topology::m_rootPeers: the ranked roots, by address
    m_probeIndex, \* Topology's probe token lookup: token -> addresses
    m_whoisQueue, \* VL1::m_whoisQueue: Address -> p_WhoisQueueItem or NoItem
    m_inputPacketAssembler, \* the Defragmenter: packet ID -> entry
    expect,       \* Expect: packet IDs a reply is expected for, with the time sent
    msgCounter,   \* message counter of the key shared with the root
    wire,         \* packets the most recent call handed to the host's wire-send
    trace,        \* trace events the most recent call emitted
    rxLog,        \* Peer::received calls the most recent call made
    last,         \* history: what the most recent onRemotePacket call did
    completions,  \* history: packet ID -> times ingress went past assembly by COMPLETE
    crashed,      \* the process took a fault (undefined behaviour)
    locking,      \* per thread: lock steps to make and locks held
    locator       \* a Locator, with a record of what was signed

threadVars == <<tpc, targ, tnew, pathRet, peerRet, firstPeer>>
ingressVars == <<now, delivered, m_rootPeers, m_probeIndex, m_whoisQueue, m_inputPacketAssembler,
                 expect, msgCounter, wire, trace, rxLog, last, completions, crashed, locking, locator>>
topoVars == <<m_paths, m_peers, nextObj, threadVars>>
vars == <<m_paths, m_peers, nextObj, threadVars, ingressVars>>

Threads == 1..NumThreads

AllPathArgs == TopoPathArgs \cup IngressPathArgs
PathKeys == { s_getPathKey(a[1], a[2]) : a \in AllPathArgs }
AllAddrs == {AddrK, AddrU, AddrV, AddrR}

NoArg == [op |-> "none"]

TopoInit ==
    /\ m_paths = [k \in PathKeys |-> NoPath]
    /\ m_peers = [a \in AllAddrs |-> NoPeer]
    /\ nextObj = 0
    /\ tpc = [t \in Threads |-> "idle"]
    /\ targ = [t \in Threads |-> NoArg]
    /\ tnew = [t \in Threads |-> 0]
    /\ pathRet = [a \in AllPathArgs |-> {}]
    /\ peerRet = [a \in AllAddrs |-> {}]
    /\ firstPeer = [a \in AllAddrs |-> 0]

(***************************************************************************)
(* Topology::path(l,r)                                                     *)
(***************************************************************************)
\* The insert as it would be without the second look under the write lock:
\* p2 = p; return p.
PathInsertUnchecked(paths, k, p) == <<[paths EXCEPT ![k] = p], p>>

\* The write-locked half: SharedPtr<Path> &p2 = m_paths[k]; if (p2) return p2;
\* p2 = p; return p.  Result: <<map after, Path returned>>.
PathInsert(paths, k, p) ==
    IF paths[k] # NoPath
    THEN <<paths, paths[k]>>
    ELSE <<[paths EXCEPT ![k] = p], p>>

\* path(l,r) up to the end of the read-locked lookup: a hit returns the
\* Path found; on a miss the caller constructs a Path, holding no lock.
PathRLock(t) ==
    /\ tpc[t] = "idle"
    /\ \E a \in TopoPathArgs :
         LET k == s_getPathKey(a[1], a[2]) IN
           IF m_paths[k] # NoPath
           THEN /\ pathRet' = [pathRet EXCEPT ![a] = @ \cup {m_paths[k]}]
                /\ UNCHANGED <<nextObj, tnew, targ, tpc>>
           ELSE /\ nextObj < MaxObjects
                /\ nextObj' = nextObj + 1
                /\ targ' = [targ EXCEPT ![t] = [op |-> "path", l |-> a[1], r |-> a[2]]]
                /\ tnew' = [tnew EXCEPT ![t] = NewPath(nextObj + 1, a[1], a[2])]
                /\ tpc' = [tpc EXCEPT ![t] = "path_wlock"]
                /\ UNCHANGED pathRet
    /\ UNCHANGED <<m_paths, m_peers, peerRet, firstPeer>>
    /\ UNCHANGED ingressVars

\* The write-locked insert and the return.
PathWLock(t) ==
    /\ tpc[t] = "path_wlock"
    /\ LET k == s_getPathKey(targ[t].l, targ[t].r)
           res == PathInsert(m_paths, k, tnew[t])
       IN /\ m_paths' = res[1]
          /\ pathRet' = [pathRet EXCEPT ![<<targ[t].l, targ[t].r>>] = @ \cup {res[2]}]
    /\ tpc' = [tpc EXCEPT ![t] = "idle"]
    /\ targ' = [targ EXCEPT ![t] = NoArg]
    /\ tnew' = [tnew EXCEPT ![t] = 0]
    /\ UNCHANGED <<m_peers, nextObj, peerRet, firstPeer>>
    /\ UNCHANGED ingressVars

(***************************************************************************)
(* Topology::peer(zta, loadFromCached) and Topology::add(peer)            *)
(***************************************************************************)
\* The insert as it would be without the second look under the write lock.
PeerInsertUnchecked(peers, zta, p) == <<[peers EXCEPT ![zta] = p], p>>

\* SharedPtr<Peer> &hp = m_peers[zta]; if (hp) return hp; hp = p; return p.
PeerInsert(peers, zta, p) ==
    IF peers[zta] # NoPeer
    THEN <<peers, peers[zta]>>
    ELSE <<[peers EXCEPT ![zta] = p], p>>

\* Topology::add: never replaces; the existing record is returned.
TopologyAdd(peers, p) == PeerInsert(peers, p.identity.addr, p)

NoteFirst(first, peers) ==
    [a \in AllAddrs |-> IF first[a] = 0 /\ peers[a] # NoPeer THEN peers[a].id ELSE first[a]]

\* What a call of peer() or add() returned, added to the history.
Returned(hist, zta, p) ==
    IF p = NoPeer THEN hist ELSE [hist EXCEPT ![zta] = @ \cup {p.id}]

\* peer(zta, loadFromCached) up to the end of the read-locked lookup.
PeerRLock(t) ==
    /\ tpc[t] = "idle"
    /\ \E a \in TopoAddrs, load \in BOOLEAN :
         IF m_peers[a] # NoPeer
         THEN /\ peerRet' = Returned(peerRet, a, m_peers[a])
              /\ UNCHANGED <<tpc, targ>>
         ELSE IF load
         THEN /\ tpc' = [tpc EXCEPT ![t] = "peer_load"]
              /\ targ' = [targ EXCEPT ![t] = [op |-> "peer", zta |-> a]]
              /\ UNCHANGED peerRet
         ELSE /\ peerRet' = Returned(peerRet, a, NoPeer)
              /\ UNCHANGED <<tpc, targ>>
    /\ UNCHANGED <<m_paths, m_peers, nextObj, tnew, pathRet, firstPeer>>
    /\ UNCHANGED ingressVars

\* m_loadCached(tPtr, zta, p), outside any lock; return p when it is null.
PeerLoad(t) ==
    /\ tpc[t] = "peer_load"
    /\ nextObj < MaxObjects
    /\ LET p == m_loadCached(targ[t].zta, nextObj + 1) IN
         IF p # NoPeer
         THEN /\ nextObj' = nextObj + 1
              /\ tnew' = [tnew EXCEPT ![t] = p]
              /\ tpc' = [tpc EXCEPT ![t] = "peer_wlock"]
              /\ UNCHANGED <<targ, peerRet>>
         ELSE /\ peerRet' = Returned(peerRet, targ[t].zta, NoPeer)
              /\ tpc' = [tpc EXCEPT ![t] = "idle"]
              /\ targ' = [targ EXCEPT ![t] = NoArg]
              /\ UNCHANGED <<nextObj, tnew>>
    /\ UNCHANGED <<m_paths, m_peers, pathRet, firstPeer>>
    /\ UNCHANGED ingressVars

\* The write-locked insert and the return.
PeerWLock(t) ==
    /\ tpc[t] = "peer_wlock"
    /\ LET res == PeerInsert(m_peers, targ[t].zta, tnew[t]) IN
         /\ m_peers' = res[1]
         /\ peerRet' = Returned(peerRet, targ[t].zta, res[2])
         /\ firstPeer' = NoteFirst(firstPeer, res[1])
    /\ tpc' = [tpc EXCEPT ![t] = "idle"]
    /\ targ' = [targ EXCEPT ![t] = NoArg]
    /\ tnew' = [tnew EXCEPT ![t] = 0]
    /\ UNCHANGED <<m_paths, nextObj, pathRet>>
    /\ UNCHANGED ingressVars

\* Topology::add(tPtr, peer) with a freshly initialised Peer.
AddCall(t) ==
    /\ tpc[t] = "idle"
    /\ nextObj < MaxObjects
    /\ \E i \in TopoIdentities :
         LET p == NewPeer(nextObj + 1, i)
             res == TopologyAdd(m_peers, p)
         IN /\ m_peers' = res[1]
            /\ peerRet' = Returned(peerRet, i.addr, res[2])
            /\ firstPeer' = NoteFirst(firstPeer, res[1])
    /\ nextObj' = nextObj + 1
    /\ UNCHANGED <<m_paths, tpc, targ, tnew, pathRet>>
    /\ UNCHANGED ingressVars


(***************************************************************************)
(* Protocol constants.  Lengths are in bytes; intervals are in ticks.     *)
(***************************************************************************)
ZT_PROTO_PROBE_LENGTH == 4
ZT_PROTO_MIN_FRAGMENT_LENGTH == 16
ZT_PROTO_MIN_PACKET_LENGTH == 28
ZT_PROTO_PACKET_ENCRYPTED_SECTION_START == 27
ZT_PROTO_PACKET_FRAGMENT_PAYLOAD_START_AT == 16
ZT_HMACSHA384_LEN == 48
ZT_MAX_PACKET_FRAGMENTS == 16
ZT_PROTO_CIPHER_SUITE__POLY1305_NONE == 0
ZT_PROTO_CIPHER_SUITE__POLY1305_SALSA2012 == 1
ZT_PROTO_CIPHER_SUITE__NONE == 2
ZT_PROTO_CIPHER_SUITE__AES_GMAC_SIV == 3
ZT_VL1_MAX_WHOIS_WAITING_PACKETS == 2
ZT_WHOIS_RETRY_DELAY == 2
ZT_PEER_PROBE_RESPONSE_RATE_LIMIT == 2
ZT_PEER_GENERAL_RATE_LIMIT == 2
ZT_PEER_WHOIS_RATE_LIMIT == 2
ZT_PATH_ALIVE_TIMEOUT == 3
ZT_PEER_PRIORITIZE_PATHS_INTERVAL == 1
ZT_DEFAULT_UDP_MTU == 1432
ZT_ADDRESS_LENGTH == 5
ZT_PROTO_PACKET_PAYLOAD_START == 28
ZT_EXPECT_TTL == 2

StartTime == ZT_PATH_ALIVE_TIMEOUT

\* The times of the model stay far below 2^63, so the int64_t differences
\* the code computes never wrap.

(***************************************************************************)
(* Datagrams.  What the code reads from the bytes is kept as fields:      *)
(*   len        datagram length                                            *)
(*   token      the 32-bit value of a probe-length datagram                *)
(*   dest       destination ZeroTier address                               *)
(*   pid        packet ID                                                  *)
(*   frag       the fragment indicator byte is 0xff                        *)
(*   fragNo, fragTotal   the fragment counts nibble pair                   *)
(*   fragmented the head's FRAGMENTED flag                                 *)
(*   source, cipher, verb  header fields of a head                         *)
(*   mac        public key material of the identity whose shared key made *)
(*              the MAC (0: no key of the model, a forged or damaged MAC) *)
(*   hello      the HELLO payload: protocol version, identity, whether    *)
(*              the sent-to address parses, the metadata dictionary and   *)
(*              the probe token in it                                      *)
(***************************************************************************)
NoHello == [proto |-> 0, identity |-> NIL, sentToOk |-> FALSE, dict |-> "none", probe |-> 0]

Blank ==
    [len |-> 0, token |-> 0, dest |-> SelfAddr, pid |-> 0, frag |-> FALSE,
     fragNo |-> 0, fragTotal |-> 0, fragmented |-> FALSE, source |-> "nil",
     cipher |-> 0, verb |-> "NOP", mac |-> 0, hello |-> NoHello]

PIDs == {1, 2}

\* Probes with the token K announced and with a token nobody is filed under.
ProbeDatagrams ==
    { [Blank EXCEPT !.len = ZT_PROTO_PROBE_LENGTH, !.token = t] : t \in {7, 9} }

RuntDatagrams == { [Blank EXCEPT !.len = 10] }

ForeignDatagrams ==
    { [Blank EXCEPT !.len = 64, !.dest = AddrOther, !.pid = 1, !.source = AddrK,
                    !.cipher = 1, !.verb = "ECHO"],
      [Blank EXCEPT !.len = 20, !.dest = AddrOther, !.pid = 1, !.frag = TRUE,
                    !.fragNo = 1, !.fragTotal = 2] }

ShortHeads == { [Blank EXCEPT !.len = 20, !.pid = 1, !.source = AddrK] }

\* Tail fragments: number n of c fragments of the packet i.
Fragment(i, n, c) ==
    [Blank EXCEPT !.len = 20, !.pid = i, !.frag = TRUE, !.fragNo = n, !.fragTotal = c]

\* HELLO payloads: [proto, identity, sentToOk, dict, probe].
HelloBody(v, ok, c, t) ==
    [proto |-> v, identity |-> NIL, sentToOk |-> ok, dict |-> c, probe |-> t]

HelloPlain == { HelloBody(v, TRUE, "none", 0) : v \in {10, 11} }

HelloBodies ==
    HelloPlain
    \cup { HelloBody(11, FALSE, "none", 0) }
    \cup { HelloBody(11, TRUE, c, 0) : c \in {"oversize", "undecodable", "empty", "full"} }
    \cup { HelloBody(11, TRUE, "full", 9) }

HelloHead(n, id, src, c, m, b) ==
    [Blank EXCEPT !.len = n, !.pid = 1, !.source = src, !.cipher = c, !.verb = "HELLO",
                  !.mac = m, !.hello = [b EXCEPT !.identity = id]]

\* Plaintext HELLOs: from the unknown V with every payload under the right
\* MAC and with the plain payloads under a wrong one; from the known K and
\* the cached U under a right and a wrong MAC; with an unparsable, a
\* foreign, a conflicting and an invalid identity; with cipher NONE; and
\* too short for an HMAC.
HelloHeads ==
    { HelloHead(64, IdV, AddrV, ZT_PROTO_CIPHER_SUITE__POLY1305_NONE, IdV.pub, b) :
        b \in HelloBodies }
    \cup { HelloHead(64, IdV, AddrV, ZT_PROTO_CIPHER_SUITE__POLY1305_NONE, 0, b) :
        b \in HelloPlain }
    \cup UNION { { HelloHead(64, id, id.addr, ZT_PROTO_CIPHER_SUITE__POLY1305_NONE, m,
                              HelloBody(11, TRUE, "none", 0)) :
                      m \in {0, id.pub} } : id \in {IdK, IdU} }
    \cup { HelloHead(64, i[1], i[2], ZT_PROTO_CIPHER_SUITE__POLY1305_NONE, i[1].pub,
                      HelloBody(11, TRUE, "none", 0)) :
              i \in { <<NIL, AddrV>>, <<IdKImposter, AddrK>>, <<IdVInvalid, AddrV>>, <<IdV, AddrK>> } }
    \cup { HelloHead(64, IdV, AddrV, ZT_PROTO_CIPHER_SUITE__NONE, IdV.pub,
                      HelloBody(11, TRUE, "none", 0)) }
    \cup { HelloHead(30, IdV, AddrV, ZT_PROTO_CIPHER_SUITE__POLY1305_NONE, IdV.pub,
                      HelloBody(11, TRUE, "none", 0)) }

PacketHead(i, f, id, c, v, m) ==
    [Blank EXCEPT !.len = 64, !.pid = i, !.fragmented = f, !.source = id.addr,
                  !.cipher = c, !.verb = v, !.mac = m]

IsPlainHello(d) ==
    /\ d.cipher \in {ZT_PROTO_CIPHER_SUITE__POLY1305_NONE, ZT_PROTO_CIPHER_SUITE__NONE}
    /\ d.verb = "HELLO"

\* The head of a fragmented ECHO of K, with a right and a wrong MAC.
FragmentedHeads ==
    { PacketHead(1, TRUE, IdK, ZT_PROTO_CIPHER_SUITE__POLY1305_SALSA2012, "ECHO", m) :
        m \in {0, IdK.pub} }

\* Whole packets other than plaintext HELLOs: ECHOs of the known K under
\* every cipher with a right and a wrong MAC, a WHOIS and an encrypted
\* HELLO of K, and ECHOs of the unknown V, one of them with the cipher
\* NONE, and of the cached U.
WholePackets ==
    { PacketHead(1, FALSE, IdK, c, "ECHO", m) : c \in 0..3, m \in {0, IdK.pub} }
    \cup { PacketHead(1, FALSE, IdK, ZT_PROTO_CIPHER_SUITE__POLY1305_SALSA2012, v, IdK.pub) :
              v \in {"WHOIS", "HELLO"} }
    \cup { PacketHead(i, FALSE, IdV, ZT_PROTO_CIPHER_SUITE__POLY1305_SALSA2012, "ECHO", 0) :
              i \in PIDs }
    \cup { PacketHead(2, FALSE, IdV, ZT_PROTO_CIPHER_SUITE__NONE, "ECHO", 0) }
    \cup { PacketHead(1, FALSE, IdU, ZT_PROTO_CIPHER_SUITE__POLY1305_SALSA2012, "ECHO", m) :
              m \in {0, IdU.pub} }

\* What the host delivers in the three scenarios: datagrams of every kind;
\* HELLOs of every kind and a packet of the unknown V; the parts of
\* fragmented packets, in any order and number.
Datagrams ==
    ProbeDatagrams \cup RuntDatagrams \cup ForeignDatagrams \cup ShortHeads
    \cup { Fragment(1, 1, 2) } \cup FragmentedHeads \cup WholePackets
    \cup { HelloHead(64, IdV, AddrV, ZT_PROTO_CIPHER_SUITE__POLY1305_NONE, IdV.pub,
                      HelloBody(11, TRUE, "none", 0)) }

HelloDatagrams ==
    HelloHeads
    \cup { PacketHead(1, FALSE, IdV, ZT_PROTO_CIPHER_SUITE__POLY1305_SALSA2012, "ECHO", 0) }

FragmentSeries ==
    FragmentedHeads \cup { Fragment(1, 1, 2), Fragment(1, 2, 2), Fragment(1, 1, 3), Fragment(1, 2, 3) }

(***************************************************************************)
(* Helpers of the ingress pipeline.                                        *)
(***************************************************************************)
\* RR->t->incomingPacketDropped(tPtr, code, ..., reason)
Dropped(code, reason) == [ev |-> "incomingPacketDropped", code |-> code, reason |-> reason]

\* The Path left as it is.
PathNotReceived(paths, k, t) == paths

\* Path::received(now, len): the last-receive time of the Path under key k.
PathReceived(paths, k, t) == [paths EXCEPT ![k].lastReceive = t]

\* Path::alive(now)
PathAlive(path, t) == (t - path.lastReceive) < ZT_PATH_ALIVE_TIMEOUT

\* Topology::path(l,r) run by one caller alone: <<map after, Path returned>>.
TopologyPath(paths, l, r, id) ==
    LET k == s_getPathKey(l, r) IN
      IF paths[k] # NoPath THEN <<paths, paths[k]>>
      ELSE PathInsert(paths, k, NewPath(id, l, r))

\* Topology::peer(zta, loadFromCached) run by one caller alone:
\* <<map after, Peer returned or NoPeer>>.
TopologyPeer(peers, zta, loadFromCached, id) ==
    IF zta \notin DOMAIN peers THEN <<peers, NoPeer>>
    ELSE IF peers[zta] # NoPeer THEN <<peers, peers[zta]>>
    ELSE IF loadFromCached
    THEN LET p == m_loadCached(zta, id) IN
           IF p # NoPeer THEN PeerInsert(peers, zta, p) ELSE <<peers, NoPeer>>
    ELSE <<peers, NoPeer>>

\* Topology::root(): the head of the ranked roots, or NoPeer.
TopologyRoot(peers, roots) == IF roots = <<>> THEN NoPeer ELSE peers[roots[1]]

\* Topology::peersByProbeToken(token): the addresses filed under the token.
peersByProbeToken(index, token) == IF token \in DOMAIN index THEN index[token] ELSE {}

\* Peer::rateGateProbeRequest(now): <<Peer after, permitted>>.
rateGateProbeRequest(peer, t) ==
    IF (t - peer.m_lastProbeReceived) >= ZT_PEER_PROBE_RESPONSE_RATE_LIMIT
    THEN <<[peer EXCEPT !.m_lastProbeReceived = t], TRUE>>
    ELSE <<peer, FALSE>>

\* Peer::rateGateInboundWhoisRequest(now): <<Peer after, permitted>>.
rateGateInboundWhoisRequest(peer, t) ==
    IF (t - peer.m_lastWhoisRequestReceived) >= ZT_PEER_WHOIS_RATE_LIMIT
    THEN <<[peer EXCEPT !.m_lastWhoisRequestReceived = t], TRUE>>
    ELSE <<peer, FALSE>>

\* Peer::rateGateEchoRequest(now): <<Peer after, permitted>>.
rateGateEchoRequest(peer, t) ==
    IF (t - peer.m_lastEchoRequestReceived) >= ZT_PEER_GENERAL_RATE_LIMIT
    THEN <<[peer EXCEPT !.m_lastEchoRequestReceived = t], TRUE>>
    ELSE <<peer, FALSE>>

\* Peer::setProbeToken(t): only the Peer's own field changes.
setProbeToken(peer, t) == [peer EXCEPT !.m_probe = t]

\* Peer::setRemoteVersion(vproto, ...)
setRemoteVersion(peer, vproto) == [peer EXCEPT !.m_vProto = vproto]

\* The order of preference of two alive paths: the lower latency first,
\* then the later last-receive time.
PathPreferred(p, q) ==
    \/ p.latency < q.latency
    \/ p.latency = q.latency /\ p.lastReceive > q.lastReceive

\* The sequence of path keys ks, sorted, with the key k put in its place.
RECURSIVE PathSortedInsert(_, _, _)
PathSortedInsert(ks, k, paths) ==
    IF ks = <<>> THEN <<k>>
    ELSE IF PathPreferred(paths[k], paths[Head(ks)]) THEN <<k>> \o ks
    ELSE <<Head(ks)>> \o PathSortedInsert(Tail(ks), k, paths)

RECURSIVE PathSort(_, _)
PathSort(ks, paths) ==
    IF ks = <<>> THEN <<>>
    ELSE PathSortedInsert(PathSort(SubSeq(ks, 1, Len(ks) - 1), paths), ks[Len(ks)], paths)

\* Peer::m_prioritizePaths(now): the time is noted, the alive paths stay,
\* sorted by preference, and m_alivePathCount is their number.
m_prioritizePaths(peer, paths, t) ==
    [peer EXCEPT !.m_lastPrioritizedPaths = t,
                 !.m_paths = PathSort(SelectSeq(peer.m_paths, LAMBDA k : PathAlive(paths[k], t)),
                                      paths)]

\* Expect::sending(packetId, now): the packet ID is recorded with the time
\* it was sent at; an older record of the same ID is replaced.
sending(exp, packetId, t) ==
    { e \in exp : e.pid # packetId } \cup { [pid |-> packetId, sent |-> t] }

\* Expect::expecting(inRePacketId, now): <<table after, expected>>.  The
\* record of the ID is retired by the call; the answer is true if there was
\* one and it had not expired.
expecting(exp, inRePacketId, t) ==
    << { e \in exp : e.pid # inRePacketId },
       \E e \in exp : e.pid = inRePacketId /\ (t - e.sent) < ZT_EXPECT_TTL >>

NoKey == <<>>

\* Peer::path(now): <<Peer after, key of the Path returned or NoKey>>.
PeerPath(peer, paths, t) ==
    LET q == IF (t - peer.m_lastPrioritizedPaths) > ZT_PEER_PRIORITIZE_PATHS_INTERVAL
             THEN m_prioritizePaths(peer, paths, t)
             ELSE peer
    IN <<q, IF Len(q.m_paths) > 0 THEN q.m_paths[1] ELSE NoKey>>

\* Peer::received(tPtr, path, hops, packetId, payloadLength, verb, inReVerb):
\* the last-receive time is set and the path is learned.
PeerReceived(peer, k, t) ==
    [peer EXCEPT !.m_lastReceive = t,
                 !.m_paths = IF \E i \in 1..Len(@) : @[i] = k THEN @ ELSE Append(@, k)]

\* Peer::hello(tPtr, localSocket, atAddress, now): the HELLO put on the wire.
HelloPacket(peer, l, at) ==
    [verb |-> "HELLO", to |-> at, localSocket |-> l, dest |-> peer.identity.addr,
     pid |-> 0, addrs |-> <<>>]

\* The MAC check as it would be without the comparison.
MacNotCompared(pkt, peer) == TRUE

\* The MAC of a packet verifies under the key shared with this Peer.
MacOk(pkt, peer) == pkt.mac = peer.identity.pub

(***************************************************************************)
(* VL1::m_HELLO.  The result is [peers, ret, addr, trace, case, macPassed]:*)
(* the peer map after the call, what the caller gets back ("null", "peer"  *)
(* with the Peer's address, or "fault"), the trace events, the exit taken  *)
(* and whether the MAC check was passed.                                   *)
(***************************************************************************)
HelloResult(ps, r, a, tr, c, mp) ==
    [peers |-> ps, ret |-> r, addr |-> a, trace |-> tr, case |-> c, macPassed |-> mp]

\* What a caller can get from a function returning SharedPtr<Peer> whose
\* control flowed off the end: the Peer, a null pointer, or a fault.
FallOffEnd == {"peer", "null", "fault"}

\* m_HELLO from the sent-to address to its end; the MAC has been verified.
m_HELLO_payload(peers, peer, pkt, ub) ==
    LET a == peer.identity.addr
        h == pkt.hello
        Drop(code) == <<Dropped(code, "INVALID_OBJECT")>>
    IN
    IF ~h.sentToOk
    THEN HelloResult(peers, "null", a, Drop("707a9811"), "bad_sent_to", TRUE)
    ELSE IF h.proto >= 11 /\ h.dict = "oversize"
    THEN HelloResult(peers, "peer", a, Drop("707a9815"), "bad_dictionary", TRUE)
    ELSE IF h.proto >= 11 /\ h.dict = "undecodable"
    THEN HelloResult(peers, "peer", a, Drop("707a9816"), "bad_dictionary", TRUE)
    ELSE LET p1 == IF h.proto >= 11 /\ h.dict = "full" /\ h.probe # 0
                   THEN setProbeToken(peer, h.probe) ELSE peer
             p2 == setRemoteVersion(p1, h.proto)
         IN HelloResult([peers EXCEPT ![a] = p2], ub, a, <<>>, "end", TRUE)

\* m_HELLO from the MAC check on; peer is in the map already.
m_HELLO_mac(peers, peer, pkt, packetSize, ub) ==
    LET a == peer.identity.addr
        Fail(code) == HelloResult(peers, "null", a, <<Dropped(code, "MAC_FAILED")>>, "mac_failed", FALSE)
    IN
    IF pkt.hello.proto >= 11
    THEN IF packetSize < ZT_HMACSHA384_LEN \/ ~MacOk(pkt, peer)
         THEN Fail("707a9891")
         ELSE m_HELLO_payload(peers, peer, pkt, ub)
    ELSE IF packetSize > ZT_PROTO_PACKET_ENCRYPTED_SECTION_START
    THEN IF ~MacOk(pkt, peer)
         THEN Fail("11bfff82")
         ELSE m_HELLO_payload(peers, peer, pkt, ub)
    ELSE Fail("11bfff81")

\* What a HELLO from a peer the map holds would do if the identity check
\* were missing: the record takes the identity the packet carries.
KnownPeerHelloReplacing(peers, peer, pkt, packetSize, ub) ==
    LET p == [peer EXCEPT !.identity = pkt.hello.identity] IN
    m_HELLO_mac([peers EXCEPT ![p.identity.addr] = p], p, pkt, packetSize, ub)

\* m_HELLO for a peer the map holds: the identity of the packet must be
\* the peer's own.
KnownPeerHello(peers, peer, pkt, packetSize, ub) ==
    IF peer.identity # pkt.hello.identity
    THEN HelloResult(peers, "null", pkt.source, <<Dropped("707a9891", "MAC_FAILED")>>,
                     "identity_conflict", FALSE)
    ELSE m_HELLO_mac(peers, peer, pkt, packetSize, ub)

m_HELLO(peers, pkt, packetSize, id, ub) ==
    LET ident == pkt.hello.identity IN
    IF ident = NIL
    THEN HelloResult(peers, "null", pkt.source, <<Dropped("707a9810", "INVALID_OBJECT")>>,
                     "bad_identity", FALSE)
    ELSE IF ident.addr # pkt.source
    THEN HelloResult(peers, "null", pkt.source, <<Dropped("707a9010", "MAC_FAILED")>>,
                     "address_mismatch", FALSE)
    ELSE LET found == TopologyPeer(peers, ident.addr, TRUE, id) IN
         IF found[2] # NoPeer
         THEN KnownPeerHello(found[1], found[2], pkt, packetSize, ub)
         ELSE IF ~ident.valid
              THEN HelloResult(found[1], "null", pkt.source, <<Dropped("707a9892", "INVALID_OBJECT")>>,
                               "invalid_identity", FALSE)
              ELSE LET added == TopologyAdd(found[1], NewPeer(id, ident)) IN
                     m_HELLO_mac(added[1], added[2], pkt, packetSize, ub)

(***************************************************************************)
(* Defragmenter<ZT_MAX_PACKET_FRAGMENTS>::assemble.  An entry is           *)
(* [have, total, size, done, head]: the fragment numbers held, the total   *)
(* announced by a tail fragment (0: none yet), the bytes held, whether the *)
(* message was handed out, and the head datagram.  Entries stay for the    *)
(* reassembly window, which is longer than the time the model spans.       *)
(* The result is <<assembler after, result code, assembled packet>>.       *)
(***************************************************************************)
NoEntry == [have |-> {}, total |-> 0, size |-> 0, done |-> FALSE, head |-> Blank]

Pressures == {"none", "ERR_TOO_MANY_FRAGMENTS_FOR_PATH", "ERR_OUT_OF_MEMORY"}

assemble(asm, pid, d, payloadLen, fragmentNo, totalFragments, pressure) ==
    LET e == asm[pid]
        total == IF totalFragments > 0 THEN totalFragments ELSE e.total
        e2 == [have |-> e.have \cup {fragmentNo}, total |-> total, size |-> e.size + payloadLen,
               done |-> e.done, head |-> IF fragmentNo = 0 THEN d ELSE e.head]
    IN
    IF fragmentNo >= ZT_MAX_PACKET_FRAGMENTS \/ totalFragments > ZT_MAX_PACKET_FRAGMENTS
       \/ (totalFragments > 0 /\ fragmentNo >= totalFragments)
       \/ (totalFragments > 0 /\ e.total > 0 /\ totalFragments # e.total)
       \/ (e.total > 0 /\ fragmentNo >= e.total)
    THEN <<asm, "ERR_INVALID_FRAGMENT", Blank>>
    ELSE IF e = NoEntry /\ pressure # "none"
    THEN <<asm, pressure, Blank>>
    ELSE IF e.done \/ fragmentNo \in e.have
    THEN <<asm, "ERR_DUPLICATE_FRAGMENT", Blank>>
    ELSE IF e2.total > 0 /\ e2.have = 0..(e2.total - 1)
    THEN <<[asm EXCEPT ![pid] = [e2 EXCEPT !.done = TRUE]], "COMPLETE",
           [e2.head EXCEPT !.len = e2.size]>>
    ELSE <<[asm EXCEPT ![pid] = e2], "OK", Blank>>

\* The switch as it would be with the duplicate case breaking out too.
ProceedsOnDuplicate(result) == result \in {"COMPLETE", "ERR_DUPLICATE_FRAGMENT"}

\* The switch on the result of assemble: only COMPLETE breaks out of it.
ProceedsPastAssembly(result) == result = "COMPLETE"

(***************************************************************************)
(* The WHOIS queue and VL1::m_sendPendingWhois.                            *)
(***************************************************************************)
\* A default-constructed p_WhoisQueueItem: what m_whoisQueue[source] yields
\* for an address the map does not hold.  Slot i of the code is slot i + 1.
NoItem ==
    [lastRetry |-> 0, retries |-> 0, waitingPacketCount |-> 0,
     waitingPacket |-> [i \in 1..ZT_VL1_MAX_WHOIS_WAITING_PACKETS |-> 0],
     waitingPacketSize |-> [i \in 1..ZT_VL1_MAX_WHOIS_WAITING_PACKETS |-> 0]]

\* The inner while loop of m_sendPendingWhois: addresses are copied while
\* p < sizeof(outp) - ZT_ADDRESS_LENGTH, p starting at the payload start.
AddressesPerWhois ==
    (((ZT_DEFAULT_UDP_MTU - ZT_PROTO_MIN_PACKET_LENGTH) - ZT_ADDRESS_LENGTH
      - ZT_PROTO_PACKET_PAYLOAD_START - 1) \div ZT_ADDRESS_LENGTH) + 1

\* The WHOIS as it would be if addressed to the peer sought, not the root.
WhoisPacketsToSought(toSend, ctr, root, via) ==
    IF toSend = {} THEN <<>>
    ELSE <<[verb |-> "WHOIS", to |-> via.r, localSocket |-> via.l,
            dest |-> CHOOSE a \in toSend : TRUE, pid |-> ctr + 1, addrs |-> toSend]>>

\* The outer while loop: one WHOIS per chunk of addresses, each with the
\* next message counter value as its packet ID, sent over the root's path.
RECURSIVE WhoisPackets(_, _, _, _)
WhoisPackets(toSend, ctr, root, via) ==
    IF toSend = {} THEN <<>>
    ELSE LET n == IF Cardinality(toSend) < AddressesPerWhois
                  THEN Cardinality(toSend) ELSE AddressesPerWhois
             chunk == CHOOSE c \in SUBSET toSend : Cardinality(c) = n
         IN <<[verb |-> "WHOIS", to |-> via.r, localSocket |-> via.l, dest |-> root,
               pid |-> ctr + 1, addrs |-> chunk]>>
            \o WhoisPackets(toSend \ chunk, ctr + 1, root, via)

\* expect->sending(packetId, now) for each of the packets sent.
RECURSIVE SentAll(_, _, _)
SentAll(exp, out, t) ==
    IF out = <<>> THEN exp ELSE SentAll(sending(exp, Head(out).pid, t), Tail(out), t)

\* The pass over the queue as it would be without the stamp: the due
\* addresses are collected and their entries left as they are.
WhoisCollectNoStamp(queue, t) ==
    << queue,
       { a \in AllAddrs : /\ queue[a] # NoItem
                          /\ (t - queue[a].lastRetry) >= ZT_WHOIS_RETRY_DELAY } >>

\* The pass over the queue under m_whoisQueue_l: <<queue after, toSend>>.
\* Every entry whose retry is due is stamped, counted and collected.
WhoisCollect(queue, t) ==
    LET toSend == { a \in AllAddrs : /\ queue[a] # NoItem
                                     /\ (t - queue[a].lastRetry) >= ZT_WHOIS_RETRY_DELAY }
    IN << [a \in AllAddrs |->
             IF a \in toSend
             THEN [queue[a] EXCEPT !.lastRetry = t, !.retries = @ + 1]
             ELSE queue[a]],
          toSend >>

\* The slot as it would be if every packet went to the first one.
WaitingSlotFirst(wq) == 1

\* wpidx, counted from 1: the slot the next packet of the entry is kept in.
WaitingSlot(wq) == (wq.waitingPacketCount % ZT_VL1_MAX_WHOIS_WAITING_PACKETS) + 1

WhoisResult(ps, q, e, c, w) == [peers |-> ps, queue |-> q, expect |-> e, ctr |-> c, wire |-> w]

m_sendPendingWhois(peers, paths, roots, queue, exp, ctr, t) ==
    LET root == TopologyRoot(peers, roots) IN
    IF root = NoPeer THEN WhoisResult(peers, queue, exp, ctr, <<>>)
    ELSE LET rp == PeerPath(root, paths, t)
             peers2 == [peers EXCEPT ![root.identity.addr] = rp[1]]
         IN
         IF rp[2] = NoKey THEN WhoisResult(peers2, queue, exp, ctr, <<>>)
         ELSE LET due == WhoisCollect(queue, t)
                  toSend == due[2]
                  queue2 == due[1]
                  out == WhoisPackets(toSend, ctr, root.identity.addr, paths[rp[2]])
              IN WhoisResult(peers2, queue2, SentAll(exp, out, t), ctr + Len(out), out)

(***************************************************************************)
(* VL1::onRemotePacket.  Each stage maps a record of the values the call   *)
(* has produced so far to the record at its return.                        *)
(***************************************************************************)
\* The summary of a call kept in the history variable last.
NoCall ==
    [kind |-> "none", from |-> PhysX, pid |-> 0, source |-> "nil", verb |-> "NOP",
     cipher |-> 0, asmResult |-> "none", viaDefrag |-> FALSE, peerBefore |-> FALSE,
     peerKnown |-> FALSE, helloCase |-> "none", helloRet |-> "none",
     helloMacPassed |-> FALSE, queued |-> FALSE,
     ret |-> "none", inReVerb |-> "NOP", inRePacketId |-> 0,
     peerAddress |-> "nil", port |-> 0, addressLength |-> 0, records |-> <<>>,
     truncated |-> FALSE, token |-> 0, dest |-> SelfAddr, len |-> 0, frag |-> FALSE,
     thrown |-> "none", mac |-> 0, helloIdentity |-> NIL]

RECURSIVE SetToSeq(_)
SetToSeq(S) ==
    IF S = {} THEN <<>>
    ELSE LET x == CHOOSE y \in S : TRUE IN <<x>> \o SetToSeq(S \ {x})

\* The probe branch: every Peer filed under the token is asked for a HELLO
\* to the sender's address, if its rate gate permits.
Probe(c, l, from, d, t) ==
    LET list == peersByProbeToken(m_probeIndex, d.token)
        permitted == { a \in list : rateGateProbeRequest(c.peers[a], t)[2] }
    IN [c EXCEPT !.peers = [a \in AllAddrs |->
                              IF a \in list THEN rateGateProbeRequest(c.peers[a], t)[1]
                              ELSE c.peers[a]],
                 !.wire = [i \in 1..Cardinality(permitted) |->
                              HelloPacket(c.peers[SetToSeq(permitted)[i]], l, from)],
                 !.last.kind = "probe"]

\* The destination test as it would be if every datagram were taken as
\* addressed to this node.
ForeignNever(d) == FALSE

\* destination != RR->identity.address()
Foreign(d) == d.dest # SelfAddr

\* m_relay, called for a datagram addressed to another node and followed
\* by the return: its body is empty.
m_relay(c) == [c EXCEPT !.last.kind = "relay"]

\* The body of if (authenticated): the verb switch and the Peer::received
\* call after it are excluded from compilation.
Dispatch(c, peer, pkt) == [c EXCEPT !.last.kind = "authenticated"]

\* The else branch of if (authenticated): the packet is put into the WHOIS
\* queue under its source address and the pending WHOIS requests are sent
\* if the item's retry delay has passed.
Enqueue(c, pkt, t) ==
    IF pkt.len < ZT_PROTO_MIN_PACKET_LENGTH THEN [c EXCEPT !.last.kind = "short_assembled"]
    ELSE LET wq == c.queue[pkt.source]
             wpidx == WaitingSlot(wq)
             wq2 == [wq EXCEPT !.waitingPacketCount = @ + 1,
                               !.waitingPacketSize[wpidx] = pkt.len,
                               !.waitingPacket[wpidx] = pkt.pid]
             queue2 == [c.queue EXCEPT ![pkt.source] = wq2]
             sendPending == (t - wq2.lastRetry) >= ZT_WHOIS_RETRY_DELAY
             w == m_sendPendingWhois(c.peers, c.paths, m_rootPeers, queue2, c.expect, c.ctr, t)
         IN IF sendPending
            THEN [c EXCEPT !.peers = w.peers, !.queue = w.queue, !.expect = w.expect,
                           !.ctr = w.ctr, !.wire = w.wire,
                           !.last.kind = "queued", !.last.queued = TRUE]
            ELSE [c EXCEPT !.queue = queue2, !.last.kind = "queued", !.last.queued = TRUE]

\* The plaintext HELLO branch.
PlainHello(c, pkt, k, t, ub) ==
    IF pkt.len < ZT_PROTO_MIN_PACKET_LENGTH THEN [c EXCEPT !.last.kind = "short_assembled"]
    ELSE LET h == m_HELLO(c.peers, pkt, pkt.len, c.nextObj + 1, ub)
             made == Cardinality({ a \in AllAddrs : c.peers[a] = NoPeer /\ h.peers[a] # NoPeer })
         IN [c EXCEPT !.peers = IF h.ret = "peer"
                                THEN [h.peers EXCEPT ![h.addr] = PeerReceived(@, k, t)]
                                ELSE h.peers,
                      !.nextObj = @ + made,
                      !.trace = h.trace,
                      !.rxLog = IF h.ret = "peer"
                                THEN <<[peer |-> h.addr, pid |-> pkt.pid, verb |-> "HELLO"]>>
                                ELSE <<>>,
                      !.crashed = (h.ret = "fault"),
                      !.last.kind = "hello", !.last.helloCase = h.case,
                      !.last.helloRet = h.ret, !.last.helloMacPassed = h.macPassed,
                      !.last.helloIdentity = pkt.hello.identity]

\* The MAC failure as it would be without the return after the trace: the
\* packet goes on to the unauthenticated branch.
MacFailedNoReturn(c, pkt, t) ==
    [Enqueue([c EXCEPT !.trace = <<Dropped("cc89c812", "MAC_FAILED")>>], pkt, t)
       EXCEPT !.last.kind = "mac_failed"]

\* The MAC in the header differs from the one computed: the drop is traced
\* and the call returns.
MacFailed(c, pkt, t) ==
    [c EXCEPT !.trace = <<Dropped("cc89c812", "MAC_FAILED")>>, !.last.kind = "mac_failed"]

\* The cipher switch as it would be with a case that authenticates for
\* every cipher.
CipherAny(cipher) == TRUE

\* The cases of the cipher switch that have a body; those of NONE and
\* AES_GMAC_SIV are empty.
CipherImplemented(cipher) ==
    cipher \in {ZT_PROTO_CIPHER_SUITE__POLY1305_NONE, ZT_PROTO_CIPHER_SUITE__POLY1305_SALSA2012}

\* From the fully assembled packet to the return.
Assembled(c0, pkt, k, t, ub) ==
    LET c == [c0 EXCEPT !.last.source = pkt.source, !.last.verb = pkt.verb,
                        !.last.cipher = pkt.cipher, !.last.mac = pkt.mac,
                        !.last.peerBefore = (TopologyPeer(c0.peers, pkt.source, FALSE, 0)[2] # NoPeer)]
    IN
    IF IsPlainHello(pkt) THEN PlainHello(c, pkt, k, t, ub)
    ELSE LET found == TopologyPeer(c.peers, pkt.source, TRUE, c.nextObj + 1)
             peer == found[2]
             c1 == [c EXCEPT !.peers = found[1],
                             !.nextObj = IF ~c.last.peerBefore /\ peer # NoPeer
                                         THEN @ + 1 ELSE @,
                             !.last.peerKnown = (peer # NoPeer)]
         IN
         IF peer # NoPeer /\ CipherImplemented(pkt.cipher)
         THEN IF pkt.len < ZT_PROTO_MIN_PACKET_LENGTH
              THEN [c1 EXCEPT !.last.kind = "short_assembled"]
              ELSE IF ~MacOk(pkt, peer)
              THEN MacFailed(c1, pkt, t)
              ELSE Dispatch(c1, peer, pkt)
         ELSE Enqueue(c1, pkt, t)

\* A result of assemble other than COMPLETE ends the call.
AfterAssemble(c, a, pid, k, t, ub) ==
    LET c1 == [c EXCEPT !.asm = a[1], !.last.asmResult = a[2], !.last.viaDefrag = TRUE] IN
    IF ProceedsPastAssembly(a[2])
    THEN Assembled([c1 EXCEPT !.completions[pid] = @ + 1], a[3], k, t, ub)
    ELSE [c1 EXCEPT !.last.kind = "assembly"]

Ingress(l, from, d, ub, pressure) ==
    LET k == s_getPathKey(l, from)
        tp == TopologyPath(m_paths, l, from, nextObj + 1)
        c == [paths |-> PathReceived(tp[1], k, now), peers |-> m_peers,
              nextObj |-> IF m_paths[k] = NoPath THEN nextObj + 1 ELSE nextObj,
              queue |-> m_whoisQueue, asm |-> m_inputPacketAssembler, expect |-> expect,
              ctr |-> msgCounter, wire |-> <<>>, trace |-> <<>>, rxLog |-> <<>>,
              completions |-> completions, crashed |-> FALSE,
              last |-> [NoCall EXCEPT !.from = from, !.pid = d.pid, !.token = d.token,
                                      !.dest = d.dest, !.len = d.len, !.frag = d.frag]]
    IN
    IF d.len = ZT_PROTO_PROBE_LENGTH THEN Probe(c, l, from, d, now)
    ELSE IF d.len < ZT_PROTO_MIN_FRAGMENT_LENGTH THEN [c EXCEPT !.last.kind = "runt"]
    ELSE IF Foreign(d) THEN m_relay(c)
    ELSE IF d.frag
    THEN AfterAssemble(c, assemble(c.asm, d.pid, d, d.len - ZT_PROTO_PACKET_FRAGMENT_PAYLOAD_START_AT,
                                   d.fragNo, d.fragTotal, pressure), d.pid, k, now, ub)
    ELSE IF d.len < ZT_PROTO_MIN_PACKET_LENGTH THEN [c EXCEPT !.last.kind = "short_head"]
    ELSE IF d.fragmented
    THEN AfterAssemble(c, assemble(c.asm, d.pid, d, d.len, 0, 0, pressure), d.pid, k, now, ub)
    ELSE Assembled(c, d, k, now, ub)

\* The inputs that the datagram leaves open: what the fall off the end of
\* m_HELLO yields, and the memory pressure the Defragmenter is under.
UBChoices(d) == IF IsPlainHello(d) THEN FallOffEnd ELSE {"peer"}
PressureChoices(d) == IF d.frag \/ d.fragmented THEN Pressures ELSE {"none"}

\* One call of onRemotePacket with a datagram of the menu from one of the
\* addresses froms, the max-th call at most.
Deliver(froms, menu, max) ==
    /\ ~crashed
    /\ delivered < max
    /\ \E l \in LocalSockets, from \in froms, d \in menu :
         \E ub \in UBChoices(d), pressure \in PressureChoices(d) :
         \E c \in { Ingress(l, from, d, ub, pressure) } :
             /\ m_paths' = c.paths
             /\ m_peers' = c.peers
             /\ nextObj' = c.nextObj
             /\ m_whoisQueue' = c.queue
             /\ m_inputPacketAssembler' = c.asm
             /\ expect' = c.expect
             /\ msgCounter' = c.ctr
             /\ wire' = c.wire
             /\ trace' = c.trace
             /\ rxLog' = c.rxLog
             /\ last' = c.last
             /\ completions' = c.completions
             /\ crashed' = c.crashed
    /\ delivered' = delivered + 1
    /\ UNCHANGED <<now, m_rootPeers, m_probeIndex, threadVars, locking, locator>>

OnRemotePacket == Deliver(FromAddrs, Datagrams, MaxDeliveries)

OnHello == Deliver(FromAddrs, HelloDatagrams, MaxDeliveries)

OnFragment == Deliver({PhysX}, FragmentSeries, MaxSeries)

(***************************************************************************)
(* Exceptions.  A call of onRemotePacket may have an exception raised by   *)
(* what it calls (operator new, an insert into a map): by Topology::path,  *)
(* which the function calls before its try block, or by a statement of     *)
(* the try block, the first or the last one the call reaches.              *)
(***************************************************************************)
ThrowPoints == {"Topology::path", "try_enter", "try_leave"}

\* Trace::unexpectedError(tPtr, codeLocation, message, ...)
UnexpectedError(code) == [ev |-> "unexpectedError", code |-> code]

\* No statement is inside a try block.
InsideTryNever(at) == FALSE

\* The statement lies inside the try block of onRemotePacket.
InsideTry(at) == at \in {"try_enter", "try_leave"}

\* One call of onRemotePacket in which an exception is raised at the point
\* at, or none is.
IngressThrowing(l, from, d, ub, pressure, at) ==
    LET k == s_getPathKey(l, from)
        c == Ingress(l, from, d, ub, pressure)
        unchanged ==
            [paths |-> m_paths, peers |-> m_peers, nextObj |-> nextObj,
             queue |-> m_whoisQueue, asm |-> m_inputPacketAssembler, expect |-> expect,
             ctr |-> msgCounter, wire |-> <<>>, trace |-> <<>>, rxLog |-> <<>>,
             completions |-> completions, crashed |-> FALSE,
             last |-> [NoCall EXCEPT !.from = from, !.pid = d.pid, !.token = d.token,
                                     !.dest = d.dest, !.len = d.len, !.frag = d.frag]]
        entered ==
            [unchanged EXCEPT !.paths = PathReceived(TopologyPath(m_paths, l, from, nextObj + 1)[1],
                                                     k, now),
                              !.nextObj = c.nextObj]
        reached == IF at = "Topology::path" THEN unchanged
                   ELSE IF at = "try_enter" THEN entered
                   ELSE c
    IN IF at = "none" THEN c
       ELSE IF InsideTry(at)
       THEN [reached EXCEPT !.trace = Append(@, UnexpectedError("ea1b6dea")),
                            !.last.kind = "exception_caught", !.last.thrown = at]
       ELSE [reached EXCEPT !.last.kind = "exception_escaped", !.last.thrown = at]

\* Topology::path allocates only if the Path is not there yet; the last
\* statement is reached only by a call that is still running.
CanThrow(l, from, d, ub, pressure, at) ==
    /\ at = "Topology::path" => m_paths[s_getPathKey(l, from)] = NoPath
    /\ at = "try_leave" => ~Ingress(l, from, d, ub, pressure).crashed

DeliverThrowing(froms, menu, max) ==
    /\ ~crashed
    /\ delivered < max
    /\ \E l \in LocalSockets, from \in froms, d \in menu, at \in {"none"} \cup ThrowPoints :
         \E ub \in UBChoices(d), pressure \in PressureChoices(d) :
           /\ CanThrow(l, from, d, ub, pressure, at)
           /\ \E c \in { IngressThrowing(l, from, d, ub, pressure, at) } :
             /\ m_paths' = c.paths
             /\ m_peers' = c.peers
             /\ nextObj' = c.nextObj
             /\ m_whoisQueue' = c.queue
             /\ m_inputPacketAssembler' = c.asm
             /\ expect' = c.expect
             /\ msgCounter' = c.ctr
             /\ wire' = c.wire
             /\ trace' = c.trace
             /\ rxLog' = c.rxLog
             /\ last' = c.last
             /\ completions' = c.completions
             /\ crashed' = c.crashed
    /\ delivered' = delivered + 1
    /\ UNCHANGED <<now, m_rootPeers, m_probeIndex, threadVars, locking, locator>>

\* A probe of each kind, a runt, ECHOs of K with a right and a wrong MAC
\* and an ECHO of the unknown V.
ThrowingDatagrams ==
    ProbeDatagrams \cup RuntDatagrams
    \cup { PacketHead(1, FALSE, IdK, ZT_PROTO_CIPHER_SUITE__POLY1305_SALSA2012, "ECHO", m) :
              m \in {0, IdK.pub} }
    \cup { PacketHead(1, FALSE, IdV, ZT_PROTO_CIPHER_SUITE__POLY1305_SALSA2012, "ECHO", 0) }

OnThrowing == DeliverThrowing(FromAddrs, ThrowingDatagrams, MaxDeliveries)

\* Packets of V under the key V shares with this node.
VerbDatagrams ==
    { PacketHead(i, FALSE, IdV, ZT_PROTO_CIPHER_SUITE__POLY1305_SALSA2012, "ECHO", IdV.pub) :
        i \in PIDs }

OnQueued == Deliver({PhysX}, VerbDatagrams, MaxVerbCalls)

\* Probes, and a HELLO in which K announces the probe token 9.
TokenDatagrams ==
    ProbeDatagrams
    \cup { HelloHead(64, IdK, AddrK, ZT_PROTO_CIPHER_SUITE__POLY1305_NONE, IdK.pub,
                      HelloBody(11, TRUE, "full", 9)) }

OnProbe == Deliver(FromAddrs, TokenDatagrams, MaxSeries)

(***************************************************************************)
(* The verb handlers VL1::m_ERROR, m_OK, m_RENDEZVOUS and                  *)
(* m_PUSH_DIRECT_PATHS.  In this build the verb switch of onRemotePacket   *)
(* is excluded from compilation, so no datagram reaches them; they are     *)
(* called here as the switch would call them, with a Peer of the Topology  *)
(* and a packet that passed authentication.  What a handler reads from the *)
(* packet is kept as fields:                                               *)
(*   truncated     packetSize is below the size of the verb's structure    *)
(*   inRePacketId, inReVerb, identity   the OK or ERROR header and, for    *)
(*                 OK(WHOIS), the identity carried                         *)
(*   peerAddress, port, addressLength   the RENDEZVOUS fields              *)
(*   fits          sizeof(RENDEZVOUS) + addressLength <= packetSize        *)
(*   at            the InetAddress made of the address bytes and the port  *)
(*   epType        the type of the Endpoint read when addressLength = 255  *)
(*                 ("bad": none could be read)                             *)
(*   records       what each turn of the PUSH_DIRECT_PATHS loop reads:     *)
(*                 [addrType, addrRecordLen, port, overflow (of the read   *)
(*                 position: "record" after the lengths, "address" after   *)
(*                 the address), unmarshal (what Endpoint::unmarshal makes *)
(*                 of the bytes), at (the address they hold)]              *)
(***************************************************************************)
\* A default-constructed InetAddress, which tests false.
NilInetAddress == [family |-> 0, addr |-> <<>>, port |-> 0]

PhysB == V4(4, 793)
PhysB6 == V6(5, 6, 793)

BlankVerb ==
    [verb |-> "NOP", pid |-> 1, truncated |-> FALSE, inRePacketId |-> 0, inReVerb |-> "NOP",
     identity |-> NIL, peerAddress |-> "nil", port |-> 0, addressLength |-> 0,
     fits |-> TRUE, at |-> PhysB, epType |-> "bad", records |-> <<>>]

\* OK and ERROR in reply to a WHOIS for V, naming a packet ID.
ReplyPackets ==
    { [BlankVerb EXCEPT !.verb = v, !.truncated = tr, !.inRePacketId = i,
                        !.inReVerb = "WHOIS", !.identity = IdV] :
        v \in {"OK", "ERROR"}, tr \in BOOLEAN, i \in {1, 2} }

Rendezvous(zta, port, n, at) ==
    [BlankVerb EXCEPT !.verb = "RENDEZVOUS", !.peerAddress = zta, !.port = port,
                      !.addressLength = n, !.at = at, !.epType = "V4"]

\* RENDEZVOUS naming the known K, the cached U and the unknown V, with and
\* without a port, with an IPv4 address, an IPv6 address and an Endpoint;
\* then a truncated one, one whose address does not fit, one of an
\* address length that is none of 4, 16 and 255, and Endpoints that are
\* unreadable or not IP addresses.
RendezvousPackets ==
    { Rendezvous(a, p, n, PhysB) : a \in {AddrK, AddrU, AddrV}, p \in {0, 793}, n \in {4, 255} }
    \cup { Rendezvous(AddrK, 793, 16, PhysB6) }
    \cup { [Rendezvous(AddrK, 793, 4, PhysB) EXCEPT !.truncated = TRUE],
           [Rendezvous(AddrK, 793, 16, PhysB6) EXCEPT !.fits = FALSE],
           Rendezvous(AddrK, 793, 6, PhysB) }
    \cup { [Rendezvous(AddrK, 793, 255, PhysB) EXCEPT !.epType = e] : e \in {"bad", "other"} }

PathRecord(type, n, port, at) ==
    [addrType |-> type, addrRecordLen |-> n, port |-> port, overflow |-> "none",
     unmarshal |-> "none", at |-> at]

\* PUSH_DIRECT_PATHS with no record, with an IPv4 record, with an IPv4 and
\* an IPv6 record, with an Endpoint record of an IP address, of another
\* type and unreadable, with a record of an unknown type after an IPv4
\* one, with a record of length zero, with records running past the end,
\* and truncated.
PushPackets ==
    { [BlankVerb EXCEPT !.verb = "PUSH_DIRECT_PATHS", !.records = r] :
        r \in { <<>>,
                <<PathRecord(4, 6, 793, PhysB)>>,
                <<PathRecord(4, 6, 793, PhysB), PathRecord(6, 18, 793, PhysB6)>>,
                <<[PathRecord(0, 7, 0, PhysB) EXCEPT !.unmarshal = "V4"]>>,
                <<[PathRecord(0, 7, 0, PhysB) EXCEPT !.unmarshal = "other"]>>,
                <<[PathRecord(0, 7, 0, PhysB) EXCEPT !.unmarshal = "fail"]>>,
                <<PathRecord(4, 6, 793, PhysB), PathRecord(9, 3, 0, PhysB)>>,
                <<PathRecord(4, 0, 793, PhysB)>>,
                <<[PathRecord(4, 6, 793, PhysB) EXCEPT !.overflow = "record"]>>,
                <<[PathRecord(4, 6, 793, PhysB) EXCEPT !.overflow = "address"]>> } }
    \cup { [BlankVerb EXCEPT !.verb = "PUSH_DIRECT_PATHS", !.truncated = TRUE] }

VerbPackets == ReplyPackets \cup RendezvousPackets \cup PushPackets

\* RR->t->tryingNewPath(tPtr, code, trying, physicalAddress, ...)
TryingNewPath(code, trying, at) ==
    [ev |-> "tryingNewPath", code |-> code, trying |-> trying, at |-> at]

\* The test as it would be if every peer counted as a root.
isRootOfAnyone(peers, roots, id) == TRUE

\* Topology::isRoot(id): the identity is one of m_roots, the identities of
\* the root peers.

isRoot(peers, roots, id) == \E i \in 1..Len(roots) : peers[roots[i]].identity = id

\* The call peer->tryToContactAt(tPtr, ep, now, false): the endpoint joins
\* the try-queue of the Peer the call is made on.
tryToContactAt(peer, ep, t) ==
    [peer EXCEPT !.m_tryQueue = Append(@, [target |-> ep, ts |-> t])]

\* What a handler starts from: the state, no trace, nothing returned yet.
Handling ==
    [peers |-> m_peers, nextObj |-> nextObj, expect |-> expect, trace |-> <<>>, ret |-> "none"]

HandlerDrop(h, code, reason) ==
    [h EXCEPT !.trace = <<Dropped(code, reason)>>, !.ret = "false"]

\* The reply as it would be honoured without the look into Expect.
RepliedUnchecked(h, pkt, sizeCode, t) ==
    IF pkt.truncated THEN HandlerDrop(h, sizeCode, "MALFORMED_PACKET")
    ELSE [h EXCEPT !.ret = "true"]

\* The part m_ERROR and m_OK share: the size check, then the look into
\* Expect; what is done with a reply that was expected is nothing in
\* either (every case of the switches on eh.error and oh.inReVerb is
\* empty).
Replied(h, pkt, sizeCode, t) ==
    IF pkt.truncated THEN HandlerDrop(h, sizeCode, "MALFORMED_PACKET")
    ELSE LET e == expecting(h.expect, pkt.inRePacketId, t) IN
         IF ~e[2]
         THEN [HandlerDrop(h, "4c1f1ff7", "REPLY_NOT_EXPECTED") EXCEPT !.expect = e[1]]
         ELSE [h EXCEPT !.expect = e[1], !.ret = "true"]

m_ERROR(h, a, pkt, t) == Replied(h, pkt, "3beb1947", t)

m_OK(h, a, pkt, t) == Replied(h, pkt, "4c1f1ff7", t)

\* m_RENDEZVOUS for the packet pkt of the Peer under the address a.
m_RENDEZVOUS(h, a, pkt, t) ==
    IF ~isRoot(h.peers, m_rootPeers, h.peers[a].identity) THEN [h EXCEPT !.ret = "true"]
    ELSE IF pkt.truncated THEN HandlerDrop(h, "43e90ab3", "MALFORMED_PACKET")
    ELSE LET found == TopologyPeer(h.peers, pkt.peerAddress, TRUE, h.nextObj + 1)
             with == found[2]
             h1 == [h EXCEPT !.peers = found[1],
                             !.nextObj = IF h.peers[pkt.peerAddress] = NoPeer /\ with # NoPeer
                                         THEN @ + 1 ELSE @,
                             !.ret = "true"]
         IN
         IF with = NoPeer \/ pkt.port = 0 THEN h1
         ELSE IF pkt.addressLength \in {4, 16}
         THEN IF pkt.fits
              THEN [h1 EXCEPT !.peers[a] = tryToContactAt(@, pkt.at, t),
                              !.trace = <<TryingNewPath("55a19aaa", with.identity.addr, pkt.at)>>]
              ELSE h1
         ELSE IF pkt.addressLength = 255 /\ pkt.epType \in {"V4", "V6"}
         THEN [h1 EXCEPT !.peers[a] = tryToContactAt(@, pkt.at, t),
                         !.trace = <<TryingNewPath("55a19aab", with.identity.addr, pkt.at)>>]
         ELSE h1

\* The for loop of m_PUSH_DIRECT_PATHS from its turn i on; addr is the
\* value of the local a, which no turn resets.
RECURSIVE PushLoop(_, _, _, _, _)
PushLoop(h, a, pkt, i, addr) ==
    IF i > Len(pkt.records) THEN [h EXCEPT !.ret = "true"]
    ELSE LET r == pkt.records[i]
             addrPort == IF r.addrType \in {4, 6} THEN r.port ELSE 0
             addrLen == IF r.addrType = 0 THEN r.addrRecordLen
                        ELSE IF r.addrType = 4 THEN 4
                        ELSE IF r.addrType = 6 THEN 16 ELSE 0
             addr2 == IF addrPort # 0 THEN r.at
                      ELSE IF addrLen # 0 /\ r.unmarshal \in {"V4", "V6"} THEN r.at
                      ELSE addr
         IN
         IF r.addrRecordLen = 0
         THEN [HandlerDrop(h, "aed00118", "MALFORMED_PACKET") EXCEPT !.trace = h.trace \o @]
         ELSE IF r.overflow = "record"
         THEN [HandlerDrop(h, "b450e10f", "MALFORMED_PACKET") EXCEPT !.trace = h.trace \o @]
         ELSE IF r.overflow = "address"
         THEN [HandlerDrop(h, "b4d0f10f", "MALFORMED_PACKET") EXCEPT !.trace = h.trace \o @]
         ELSE IF addrPort = 0 /\ addrLen # 0 /\ r.unmarshal \notin {"V4", "V6", "other"}
         THEN [HandlerDrop(h, "00e0f00d", "MALFORMED_PACKET") EXCEPT !.trace = h.trace \o @]
         ELSE PushLoop([h EXCEPT !.trace =
                           IF addr2 # NilInetAddress
                           THEN Append(@, TryingNewPath("a5ab1a43", h.peers[a].identity.addr, addr2))
                           ELSE @],
                       a, pkt, i + 1, addr2)

\* m_PUSH_DIRECT_PATHS: after the loop comes "TODO: add to a peer
\* try-queue" and the return.
m_PUSH_DIRECT_PATHS(h, a, pkt, t) ==
    IF pkt.truncated THEN HandlerDrop(h, "1bb1bbb1", "MALFORMED_PACKET")
    ELSE PushLoop(h, a, pkt, 1, NilInetAddress)

Handle(h, a, pkt, t) ==
    IF pkt.verb = "ERROR" THEN m_ERROR(h, a, pkt, t)
    ELSE IF pkt.verb = "OK" THEN m_OK(h, a, pkt, t)
    ELSE IF pkt.verb = "RENDEZVOUS" THEN m_RENDEZVOUS(h, a, pkt, t)
    ELSE m_PUSH_DIRECT_PATHS(h, a, pkt, t)

\* One call of a verb handler for a packet of the menu from a Peer the
\* Topology holds.
HandleVerb(menu, max) ==
    /\ ~crashed
    /\ delivered < max
    /\ \E a \in AllAddrs, pkt \in menu :
         /\ m_peers[a] # NoPeer
         /\ \E h \in { Handle(Handling, a, pkt, now) } :
              /\ m_peers' = h.peers
              /\ nextObj' = h.nextObj
              /\ expect' = h.expect
              /\ trace' = h.trace
              /\ last' = [NoCall EXCEPT !.kind = "verb", !.source = a, !.pid = pkt.pid,
                                        !.verb = pkt.verb, !.ret = h.ret,
                                        !.inReVerb = pkt.inReVerb,
                                        !.inRePacketId = pkt.inRePacketId,
                                        !.peerAddress = pkt.peerAddress,
                                        !.port = pkt.port,
                                        !.addressLength = pkt.addressLength,
                                        !.records = pkt.records,
                                        !.truncated = pkt.truncated,
                                        !.peerBefore = TRUE, !.peerKnown = TRUE]
    /\ delivered' = delivered + 1
    /\ wire' = <<>>
    /\ rxLog' = <<>>
    /\ UNCHANGED <<m_paths, threadVars, now, m_rootPeers, m_probeIndex, m_whoisQueue,
                   m_inputPacketAssembler, msgCounter, completions, crashed, locking, locator>>

OnVerb == HandleVerb(VerbPackets, MaxVerbCalls)

(***************************************************************************)
(* Lock acquisition.  locking[t] holds, for the thread t, the lock and     *)
(* unlock steps the call it runs has still to make (todo) and the locks it *)
(* holds, in the order it took them (held).  A step is [act, l, mode]; a   *)
(* read-write lock is taken for reading ("R") or for writing ("W"), a      *)
(* plain mutex always "W".                                                 *)
(***************************************************************************)
DefragmenterLock == [name |-> "Defragmenter", peer |-> "nil"]
ExpectLock == [name |-> "Expect", peer |-> "nil"]
m_whoisQueue_l == [name |-> "m_whoisQueue_l", peer |-> "nil"]
m_lock(a) == [name |-> "m_lock", peer |-> a]
m_paths_l == [name |-> "m_paths_l", peer |-> "nil"]
m_peers_l == [name |-> "m_peers_l", peer |-> "nil"]

Lock(l, mode) == [act |-> "lock", l |-> l, mode |-> mode]
Unlock(l) == [act |-> "unlock", l |-> l, mode |-> "W"]

\* A block that holds the lock from its opening to its closing brace.
Locked(l, mode) == <<Lock(l, mode), Unlock(l)>>

\* Topology::path(l,r): the look under the read lock and, if the Path was
\* not there, the insert under the write lock.
TopologyPathLocks(found) ==
    Locked(m_paths_l, "R") \o (IF found THEN <<>> ELSE Locked(m_paths_l, "W"))

\* Topology::peer(zta): the look under the read lock and, if a Peer was
\* loaded from the state store, the insert under the write lock.
TopologyPeerLocks(loaded) ==
    Locked(m_peers_l, "R") \o (IF loaded THEN Locked(m_peers_l, "W") ELSE <<>>)

\* Topology::root() and Topology::isRoot(id)
TopologyRootLocks == Locked(m_peers_l, "R")

\* Peer::path(now): the write lock if the paths are to be prioritized, the
\* read lock otherwise.
PeerPathLocks(a, prioritize) == Locked(m_lock(a), IF prioritize THEN "W" ELSE "R")

\* Peer::setProbeToken(t)
SetProbeTokenLocks(a) == Locked(m_lock(a), "W")

\* m_sendPendingWhois: root(), root->path(now), the block over the queue,
\* then expect->sending for the packet sent.
SendPendingWhoisLocks(prioritize) ==
    TopologyRootLocks \o PeerPathLocks(AddrR, prioritize)
    \o Locked(m_whoisQueue_l, "W") \o Locked(ExpectLock, "W")

\* onRemotePacket for a fragment, for a packet of an unknown source, and
\* for a HELLO that announces a probe token.
FragmentLocks(found) == TopologyPathLocks(found) \o Locked(DefragmenterLock, "W")

UnknownSourceLocks(found, prioritize) ==
    TopologyPathLocks(found) \o TopologyPeerLocks(FALSE)
    \o Locked(m_whoisQueue_l, "W") \o SendPendingWhoisLocks(prioritize)

HelloLocks(found, loaded) ==
    TopologyPathLocks(found) \o TopologyPeerLocks(loaded) \o SetProbeTokenLocks(AddrK)

\* m_OK and m_ERROR: expect->expecting.  m_RENDEZVOUS: isRoot, peer(),
\* then the call on the Peer.
ReplyLocks == Locked(ExpectLock, "W")

RendezvousLocks(loaded) ==
    TopologyRootLocks \o TopologyPeerLocks(loaded) \o Locked(m_lock(AddrR), "W")

\* eachPeer as it would be if the callback's lock on the Peer were taken
\* first and the peer map locked under it.
EachPeerUnderPeerLock(mode) ==
    <<Lock(m_lock(AddrK), mode), Lock(m_peers_l, "R"), Unlock(m_peers_l), Unlock(m_lock(AddrK))>>

\* Topology::eachPeer(f) and eachPeerWithRoot(f) with a callback that
\* takes the lock of the Peer it is given: m_peers_l is held for reading
\* over all the calls of f.
EachPeerLocks(mode) ==
    <<Lock(m_peers_l, "R")>>
    \o Locked(m_lock(AddrK), mode) \o Locked(m_lock(AddrR), mode)
    \o <<Unlock(m_peers_l)>>

\* What a thread may be asked to run.
LockScripts ==
    { TopologyPathLocks(f) : f \in BOOLEAN }
    \cup { TopologyPeerLocks(f) : f \in BOOLEAN }
    \cup { FragmentLocks(TRUE), UnknownSourceLocks(TRUE, TRUE), UnknownSourceLocks(TRUE, FALSE),
           HelloLocks(TRUE, TRUE), ReplyLocks, RendezvousLocks(TRUE) }
    \cup { EachPeerLocks(m) : m \in {"R", "W"} }

NotLocking == [todo |-> <<>>, held |-> <<>>]

\* The threads that hold the lock l in a way that keeps t from taking it
\* in the given mode: a writer keeps everyone out, a reader keeps writers
\* out, and a thread is not let in twice except to read what it reads.
Holders(t, l, mode) ==
    { u \in Threads : \E i \in 1..Len(locking[u].held) :
         /\ locking[u].held[i].l = l
         /\ (mode = "W" \/ locking[u].held[i].mode = "W") }

\* A lock step changes nothing but the locks.
OnlyLocking ==
    UNCHANGED <<m_paths, m_peers, nextObj, threadVars, now, delivered, m_rootPeers,
                m_probeIndex, m_whoisQueue, m_inputPacketAssembler, expect, msgCounter,
                wire, trace, rxLog, last, completions, crashed, locator>>

\* The thread t waits for a lock.
Blocked(t) ==
    /\ locking[t].todo # <<>>
    /\ Head(locking[t].todo).act = "lock"
    /\ Holders(t, Head(locking[t].todo).l, Head(locking[t].todo).mode) # {}

\* A thread starts a call.
BeginCall(t) ==
    /\ locking[t] = NotLocking
    /\ \E s \in LockScripts : locking' = [locking EXCEPT ![t].todo = s]
    /\ OnlyLocking

\* The constructor of RWMutex::RLock, RWMutex::Lock or Mutex::Lock returns.
AcquireLock(t) ==
    /\ locking[t].todo # <<>>
    /\ Head(locking[t].todo).act = "lock"
    /\ ~Blocked(t)
    /\ locking' = [locking EXCEPT ![t].todo = Tail(@),
                                  ![t].held = Append(@, [l |-> Head(locking[t].todo).l,
                                                         mode |-> Head(locking[t].todo).mode])]
    /\ OnlyLocking

\* The destructor of the lock object: the block is left.
ReleaseLock(t) ==
    /\ locking[t].todo # <<>>
    /\ Head(locking[t].todo).act = "unlock"
    /\ locking' = [locking EXCEPT ![t].todo = Tail(@),
                                  ![t].held = SelectSeq(@, LAMBDA h : h.l # Head(locking[t].todo).l)]
    /\ OnlyLocking

LocksNext == \E t \in Threads : BeginCall(t) \/ AcquireLock(t) \/ ReleaseLock(t)

(***************************************************************************)
(* Peer under concurrent callers.  The callers share the Peer of K; each  *)
(* passes the time it read from the clock when its call began.  A block   *)
(* run under m_lock is one step; a load or a store of one of the          *)
(* std::atomic timestamps made outside the lock is a step of its own.     *)
(***************************************************************************)
\* The two physical addresses K has been heard from.
PhysK == V4(1, 1)
PhysK6 == V6(0, 1, 1)
PeerPathKeys == { s_getPathKey(0, PhysK), s_getPathKey(0, PhysK6) }

\* The values Path::latency() takes: unknown, or a smoothed round trip time.
Latencies == {-1, 2, 4}

RECURSIVE SeqSum(_)
SeqSum(s) == IF s = <<>> THEN 0 ELSE Head(s) + SeqSum(Tail(s))

\* Peer::latency(): ltot adds up the positive latencies of the first
\* m_alivePathCount paths, lcnt counts them.
latency(peer, paths) ==
    LET lats == [i \in 1..Len(peer.m_paths) |-> paths[peer.m_paths[i]].latency]
        known == SelectSeq(lats, LAMBDA lat : lat > 0)
        ltot == SeqSum(known)
        lcnt == Len(known)
    IN IF ltot > 0 THEN lcnt \div ltot ELSE -1

\* What a finished call of a Peer method did.
PeerCalled(kind, arg, ret) == [kind |-> kind, now |-> arg, ret |-> ret]

\* A step of a Peer call changes nothing but the Peer, the caller and the
\* record of the call.
OnlyPeerCall ==
    UNCHANGED <<m_paths, nextObj, tnew, pathRet, peerRet, firstPeer, now,
                m_rootPeers, m_probeIndex, m_whoisQueue, m_inputPacketAssembler, expect,
                msgCounter, wire, trace, rxLog, completions, crashed, locking, locator>>

\* A caller enters a method of the Peer; delivered counts the calls begun.
PeerCallBegins ==
    /\ delivered < MaxPeerCalls
    /\ delivered' = delivered + 1

\* Peer::path(now): the test of m_lastPrioritizedPaths, made before either
\* lock is taken.
PathCheck(t) ==
    /\ tpc[t] = "idle"
    /\ PeerCallBegins
    /\ targ' = [targ EXCEPT ![t] = [op |-> "path", now |-> now]]
    /\ tpc' = [tpc EXCEPT ![t] =
                 IF (now - m_peers[AddrK].m_lastPrioritizedPaths) > ZT_PEER_PRIORITIZE_PATHS_INTERVAL
                 THEN "path_prioritize" ELSE "path_read"]
    /\ UNCHANGED <<m_peers, last>>
    /\ OnlyPeerCall

\* Peer::path(now), first branch: under the write lock the paths are
\* prioritized and m_paths[0] is returned if m_alivePathCount > 0.
PathPrioritize(t) ==
    /\ tpc[t] = "path_prioritize"
    /\ \E q \in { m_prioritizePaths(m_peers[AddrK], m_paths, targ[t].now) } :
         /\ m_peers' = [m_peers EXCEPT ![AddrK] = q]
         /\ last' = PeerCalled("path", targ[t].now,
                               IF Len(q.m_paths) > 0 THEN q.m_paths[1] ELSE NoKey)
    /\ tpc' = [tpc EXCEPT ![t] = "idle"]
    /\ UNCHANGED <<targ, delivered>>
    /\ OnlyPeerCall

\* Peer::path(now), second branch: under the read lock m_paths[0] is
\* returned if m_alivePathCount > 0.
PathRead(t) ==
    /\ tpc[t] = "path_read"
    /\ last' = PeerCalled("path", targ[t].now,
                          IF Len(m_peers[AddrK].m_paths) > 0 THEN m_peers[AddrK].m_paths[1]
                          ELSE NoKey)
    /\ tpc' = [tpc EXCEPT ![t] = "idle"]
    /\ UNCHANGED <<m_peers, targ, delivered>>
    /\ OnlyPeerCall

\* Peer::latency(), run under the read lock.
LatencyCall(t) ==
    /\ tpc[t] = "idle"
    /\ PeerCallBegins
    /\ last' = PeerCalled("latency", now, latency(m_peers[AddrK], m_paths))
    /\ UNCHANGED <<m_peers, tpc, targ>>
    /\ OnlyPeerCall

\* The timestamp a rate gate keeps and the interval it compares with.
GateStamp(peer, gate) ==
    IF gate = "whois" THEN peer.m_lastWhoisRequestReceived ELSE peer.m_lastEchoRequestReceived
GateLimit(gate) ==
    IF gate = "whois" THEN ZT_PEER_WHOIS_RATE_LIMIT ELSE ZT_PEER_GENERAL_RATE_LIMIT

\* rateGateInboundWhoisRequest(now) or rateGateEchoRequest(now): the load
\* of the timestamp and the comparison; false is returned at once.
GateCheck(t) ==
    /\ tpc[t] = "idle"
    /\ PeerCallBegins
    /\ \E gate \in {"whois", "echo"} :
         /\ targ' = [targ EXCEPT ![t] = [op |-> gate, now |-> now]]
         /\ IF (now - GateStamp(m_peers[AddrK], gate)) >= GateLimit(gate)
            THEN /\ tpc' = [tpc EXCEPT ![t] = "gate_store"]
                 /\ UNCHANGED last
            ELSE /\ last' = PeerCalled(gate, now, FALSE)
                 /\ UNCHANGED tpc
    /\ UNCHANGED m_peers
    /\ OnlyPeerCall

\* The store of now into the timestamp, and the return of true.
GateStore(t) ==
    /\ tpc[t] = "gate_store"
    /\ m_peers' = [m_peers EXCEPT ![AddrK] =
                     IF targ[t].op = "whois"
                     THEN [@ EXCEPT !.m_lastWhoisRequestReceived = targ[t].now]
                     ELSE [@ EXCEPT !.m_lastEchoRequestReceived = targ[t].now]]
    /\ last' = PeerCalled(targ[t].op, targ[t].now, TRUE)
    /\ tpc' = [tpc EXCEPT ![t] = "idle"]
    /\ UNCHANGED <<targ, delivered>>
    /\ OnlyPeerCall

\* InetAddress::ipScope(): the addresses of the model that begin with 0
\* or 1 are global ones, the others private ones.
ipScope(r) == IF r.addr[1] <= 1 THEN "global" ELSE "private"

IpScopes == {"global", "private"}

\* The Path's address is in the scope and of the family.
InScope(path, scope, family) == path.r.family = family /\ ipScope(path.r) = scope

\* The ECHO a Peer sends over a Path to probe it.
EchoPacket(peer, path) ==
    [verb |-> "ECHO", to |-> path.r, localSocket |-> path.l, dest |-> peer.identity.addr]

\* A reset that probes the paths and leaves them with the Peer.
resetWithinScopeProbeOnly(peer, paths, scope, family, t) ==
    LET hit == SelectSeq(peer.m_paths, LAMBDA k : InScope(paths[k], scope, family))
    IN << peer, [i \in 1..Len(hit) |-> EchoPacket(peer, paths[hit[i]])] >>

\* Peer::resetWithinScope(tPtr, scope, inetAddressFamily, now): <<Peer
\* after, packets sent>>.  An ECHO is sent to each path in the scope and
\* the path is taken out of the Peer's alive paths.
resetWithinScope(peer, paths, scope, family, t) ==
    LET hit == SelectSeq(peer.m_paths, LAMBDA k : InScope(paths[k], scope, family))
        kept == SelectSeq(peer.m_paths, LAMBDA k : ~InScope(paths[k], scope, family))
    IN << [peer EXCEPT !.m_paths = kept],
          [i \in 1..Len(hit) |-> EchoPacket(peer, paths[hit[i]])] >>

\* A call of resetWithinScope on the Peer of K, run under the write lock.
ResetCall ==
    /\ PeerCallBegins
    /\ \E scope \in IpScopes, family \in {AF_INET, AF_INET6} :
         \E r \in { resetWithinScope(m_peers[AddrK], m_paths, scope, family, now) } :
           /\ m_peers' = [m_peers EXCEPT ![AddrK] = r[1]]
           /\ wire' = r[2]
           /\ last' = [kind |-> "reset", now |-> now, ret |-> NoKey,
                       scope |-> scope, family |-> family]
    /\ UNCHANGED <<m_paths, nextObj, threadVars, now, m_rootPeers, m_probeIndex,
                   m_whoisQueue, m_inputPacketAssembler, expect, msgCounter, trace, rxLog,
                   completions, crashed, locking, locator>>

\* An authentic packet of K arrives over one of its paths: Path::received
\* and Peer::received.
PeerHeard ==
    /\ \E k \in PeerPathKeys :
         /\ m_paths[k].lastReceive < now
         /\ m_paths' = PathReceived(m_paths, k, now)
         /\ m_peers' = [m_peers EXCEPT ![AddrK] = PeerReceived(@, k, now)]
    /\ UNCHANGED <<nextObj, threadVars, now, delivered, m_rootPeers, m_probeIndex,
                   m_whoisQueue, m_inputPacketAssembler, expect, msgCounter, wire, trace,
                   rxLog, last, completions, crashed, locking, locator>>

(***************************************************************************)
(* Locator.  An Endpoint is <<type, bytes>>; a signature names the key    *)
(* that made it and the bytes it was made over, and no one without the    *)
(* private key can make one.  The Locator is built and signed here and     *)
(* read by a node that got it over the network, where the timestamp and   *)
(* the endpoints may have been changed on the way.                         *)
(***************************************************************************)
ZT_LOCATOR_MAX_ENDPOINTS == 3

Endpoints == { <<1, 1>>, <<1, 2>>, <<2, 1>> }
Timestamps == 1..MaxTimestamp

NoSignature == [by |-> 0, over |-> <<>>]

\* Identity::fingerprint()
Fingerprint(id) == <<id.addr, id.pub>>

\* Locator(): the fields, and the timestamp and endpoints last signed.
NewLocator ==
    [m_ts |-> 0, m_signer |-> Fingerprint(NIL), m_endpoints |-> <<>>,
     m_signature |-> NoSignature, signedTs |-> 0, signedEndpoints |-> <<>>]

\* Identity::sign(data) and Identity::verify(data, sig)
IdentitySign(id, data) == [by |-> id.pub, over |-> data]
IdentityVerify(id, data, sig) == sig.by = id.pub /\ sig.over = data

\* The canonical order of endpoints: by type, then by bytes.
EndpointLess(e, f) == e[1] < f[1] \/ (e[1] = f[1] /\ e[2] < f[2])

RECURSIVE EndpointSortedInsert(_, _)
EndpointSortedInsert(es, e) ==
    IF es = <<>> THEN <<e>>
    ELSE IF EndpointLess(e, Head(es)) THEN <<e>> \o es
    ELSE <<Head(es)>> \o EndpointSortedInsert(Tail(es), e)

RECURSIVE EndpointSort(_)
EndpointSort(es) ==
    IF es = <<>> THEN <<>>
    ELSE EndpointSortedInsert(EndpointSort(Tail(es)), Head(es))

\* Bytes that leave the timestamp out.
CanonicalBytesWithoutTimestamp(ts, signer, es) == <<0, signer, Len(es), EndpointSort(es)>>

\* The bytes signed: timestamp, signer, the endpoints with their number
\* before them, in canonical order.
CanonicalBytes(ts, signer, es) == <<ts, signer, Len(es), EndpointSort(es)>>

\* Locator::add(ep): false if the locator is full.
LocatorAdd(loc, ep) ==
    IF Len(loc.m_endpoints) < ZT_LOCATOR_MAX_ENDPOINTS
    THEN <<[loc EXCEPT !.m_endpoints = Append(@, ep)], TRUE>>
    ELSE <<loc, FALSE>>

\* Locator::sign(ts, id): sets the timestamp and the signer, sorts the
\* endpoints and signs.
LocatorSign(loc, ts, id) ==
    [loc EXCEPT !.m_ts = ts,
                !.m_signer = Fingerprint(id),
                !.m_endpoints = EndpointSort(@),
                !.m_signature = IdentitySign(id, CanonicalBytes(ts, Fingerprint(id), loc.m_endpoints)),
                !.signedTs = ts,
                !.signedEndpoints = EndpointSort(loc.m_endpoints)]

\* Locator::verify(id)
LocatorVerify(loc, id) ==
    IdentityVerify(id, CanonicalBytes(loc.m_ts, loc.m_signer, loc.m_endpoints), loc.m_signature)

\* A step on the Locator changes nothing else.
OnlyLocator ==
    UNCHANGED <<m_paths, m_peers, nextObj, threadVars, now, delivered, m_rootPeers,
                m_probeIndex, m_whoisQueue, m_inputPacketAssembler, expect, msgCounter,
                wire, trace, rxLog, last, completions, crashed, locking>>

\* The owner adds an endpoint to a Locator not signed yet.
AddEndpoint ==
    /\ locator.m_signature = NoSignature
    /\ \E ep \in Endpoints : locator' = LocatorAdd(locator, ep)[1]
    /\ OnlyLocator

\* The owner signs the Locator.
SignLocator ==
    /\ locator.m_signature = NoSignature
    /\ \E ts \in Timestamps : locator' = LocatorSign(locator, ts, IdK)
    /\ OnlyLocator

\* The signed Locator is changed: an endpoint is added.
EndpointAdded ==
    /\ locator.m_signature # NoSignature
    /\ \E ep \in Endpoints : locator' = LocatorAdd(locator, ep)[1]
    /\ OnlyLocator

\* An endpoint is removed.
EndpointRemoved ==
    /\ locator.m_signature # NoSignature
    /\ \E i \in 1..Len(locator.m_endpoints) :
         locator' = [locator EXCEPT !.m_endpoints =
                       SubSeq(@, 1, i - 1) \o SubSeq(@, i + 1, Len(@))]
    /\ OnlyLocator

\* An endpoint is altered.
EndpointAltered ==
    /\ locator.m_signature # NoSignature
    /\ \E i \in 1..Len(locator.m_endpoints), ep \in Endpoints :
         locator' = [locator EXCEPT !.m_endpoints[i] = ep]
    /\ OnlyLocator

\* The timestamp is changed.
TimestampChanged ==
    /\ locator.m_signature # NoSignature
    /\ \E ts \in Timestamps : locator' = [locator EXCEPT !.m_ts = ts]
    /\ OnlyLocator

LocatorNext ==
    \/ AddEndpoint \/ SignLocator \/ EndpointAdded \/ EndpointRemoved
    \/ EndpointAltered \/ TimestampChanged

\* The clock advances between calls.
Tick ==
    /\ ~crashed
    /\ now < MaxNow
    /\ now' = now + 1
    /\ UNCHANGED <<m_paths, m_peers, nextObj, threadVars, delivered, m_rootPeers, m_probeIndex,
                   m_whoisQueue, m_inputPacketAssembler, expect, msgCounter, wire, trace,
                   rxLog, last, completions, crashed, locking, locator>>

\* The values of the ingress variables before any datagram has arrived.
IngressIdle ==
    /\ now = StartTime
    /\ delivered = 0
    /\ m_probeIndex = (7 :> {AddrK})
    /\ m_whoisQueue = [a \in AllAddrs |-> NoItem]
    /\ m_inputPacketAssembler = [i \in PIDs |-> NoEntry]
    /\ expect = {}
    /\ msgCounter = 0
    /\ wire = <<>>
    /\ trace = <<>>
    /\ rxLog = <<>>
    /\ last = NoCall
    /\ completions = [i \in PIDs |-> 0]
    /\ crashed = FALSE
    /\ locking = [t \in 1..NumThreads |-> [todo |-> <<>>, held |-> <<>>]]
    /\ locator = NewLocator

\* A node that knows the peer K, which announced the probe token 7, and the
\* root R, which it heard from one tick ago at PhysR; the state store holds
\* U; V is unknown.
Init ==
    /\ IngressIdle
    /\ m_rootPeers = <<AddrR>>
    /\ m_paths = [k \in PathKeys |->
                    IF k = s_getPathKey(0, PhysR)
                    THEN [NewPath(3, 0, PhysR) EXCEPT !.lastReceive = StartTime - 1]
                    ELSE NoPath]
    /\ m_peers = [a \in AllAddrs |->
                    IF a = AddrK THEN [NewPeer(1, IdK) EXCEPT !.m_probe = 7]
                    ELSE IF a = AddrR
                    THEN [NewPeer(2, IdR) EXCEPT !.m_paths = <<s_getPathKey(0, PhysR)>>]
                    ELSE NoPeer]
    /\ nextObj = 3
    /\ tpc = [t \in Threads |-> "idle"]
    /\ targ = [t \in Threads |-> NoArg]
    /\ tnew = [t \in Threads |-> 0]
    /\ pathRet = [a \in AllPathArgs |-> {}]
    /\ peerRet = [a \in AllAddrs |-> {}]
    /\ firstPeer = [a \in AllAddrs |-> 0]

Next == OnRemotePacket \/ Tick

Spec == Init /\ [][Next]_vars

HelloNext == OnHello \/ Tick

SpecHello == Init /\ [][HelloNext]_vars

FragmentsNext == OnFragment \/ Tick

SpecFragments == Init /\ [][FragmentsNext]_vars

\* Threads calling Topology::path on an empty Topology.
\* Probes and changes of probe tokens.
ProbeNext == OnProbe \/ Tick

SpecProbe == Init /\ [][ProbeNext]_vars

\* Threads inside calls that take locks.
SpecLocks == Init /\ [][LocksNext]_vars

\* The verb handlers at work between arrivals of packets of the unknown V.
(***************************************************************************)
(* VL1::m_WHOIS.  A request is its packet ID, the addresses it queries    *)
(* and its length: a header, ZT_ADDRESS_LENGTH bytes for each address and *)
(* possibly bytes after the last whole address.  Protocol::OK::Header is  *)
(* a Protocol::Header followed by the in-reply-to verb (one byte) and     *)
(* packet ID (eight bytes); Protocol::OK::WHOIS is that header alone.     *)
(* Marshalled sizes are scaled down: a reply holds two identities.        *)
(***************************************************************************)
SizeofOKHeader == ZT_PROTO_MIN_PACKET_LENGTH + 1 + 8

SizeofOKWhois == SizeofOKHeader

ZT_IDENTITY_MARSHAL_SIZE_MAX == 4

ZT_LOCATOR_MARSHAL_SIZE_MAX == 2

ZT_PROTO_MAX_PACKET_LENGTH == SizeofOKWhois + 12

\* Bytes outp.wO writes for an identity and for a locator.
IdentityMarshalSize == 3

LocatorMarshalSize == 2

WhoisRequest(i, qs, extra) ==
    [verb |-> "WHOIS", pid |-> i, queried |-> qs,
     len |-> ZT_PROTO_MIN_PACKET_LENGTH + (ZT_ADDRESS_LENGTH * Len(qs)) + extra]

\* Address(pkt.unsafeData + ptr)
AddressAt(pkt, ptr) == pkt.queried[((ptr - ZT_PROTO_MIN_PACKET_LENGTH) \div ZT_ADDRESS_LENGTH) + 1]

WhoisHandling ==
    [peers |-> m_peers, nextObj |-> nextObj, trace |-> <<>>, ret |-> "none", wire |-> <<>>]

OkWhoisPacket(a, pkt, recs) ==
    [verb |-> "OK", dest |-> a, inReVerb |-> "WHOIS", inRePacketId |-> pkt.pid,
     records |-> recs]

\* The inner loop of m_WHOIS: one reply packet is filled.
RECURSIVE WhoisFill(_, _, _, _, _, _)
WhoisFill(h, a, pkt, ptr, outl, recs) ==
    IF (ptr + ZT_ADDRESS_LENGTH) <= pkt.len
       /\ (outl + ZT_IDENTITY_MARSHAL_SIZE_MAX + ZT_LOCATOR_MARSHAL_SIZE_MAX) < ZT_PROTO_MAX_PACKET_LENGTH
    THEN LET found == TopologyPeer(h.peers, AddressAt(pkt, ptr), TRUE, h.nextObj + 1)
             loaded == found[1] # h.peers
             h1 == [h EXCEPT !.peers = found[1],
                             !.nextObj = IF loaded THEN @ + 1 ELSE @]
             withLocator == h.peers[a].m_vProto >= 11
         IN IF found[2] # NoPeer
            THEN WhoisFill(h1, a, pkt, ptr + ZT_ADDRESS_LENGTH,
                           outl + IdentityMarshalSize
                                + (IF withLocator THEN LocatorMarshalSize ELSE 0),
                           Append(recs, [identity |-> found[2].identity,
                                         locator |-> withLocator]))
            ELSE WhoisFill(h1, a, pkt, ptr + ZT_ADDRESS_LENGTH, outl, recs)
    ELSE [h |-> h, ptr |-> ptr, outl |-> outl, recs |-> recs]

\* The outer loop of m_WHOIS: reply packets until the request is read.
RECURSIVE WhoisReplies(_, _, _, _)
WhoisReplies(h, a, pkt, ptr) ==
    IF (ptr + ZT_ADDRESS_LENGTH) <= pkt.len
    THEN LET f == WhoisFill(h, a, pkt, ptr, SizeofOKWhois, <<>>)
             h1 == IF f.outl > SizeofOKWhois
                   THEN [f.h EXCEPT !.wire = Append(@, OkWhoisPacket(a, pkt, f.recs))]
                   ELSE f.h
         IN WhoisReplies(h1, a, pkt, f.ptr)
    ELSE [h EXCEPT !.ret = "true"]

m_WHOIS(h, a, pkt, t) ==
    IF pkt.len < SizeofOKHeader
    THEN [h EXCEPT !.trace = <<Dropped("4c1f1ff7", "MALFORMED_PACKET")>>, !.ret = "false"]
    ELSE LET gate == rateGateInboundWhoisRequest(h.peers[a], t)
             h1 == [h EXCEPT !.peers[a] = gate[1]]
         IN IF ~gate[2]
            THEN [h1 EXCEPT !.trace = <<Dropped("19f7194a", "RATE_LIMIT_EXCEEDED")>>,
                            !.ret = "true"]
            ELSE WhoisReplies(h1, a, pkt, ZT_PROTO_MIN_PACKET_LENGTH)

\* Requests for up to three of K, the cached U and the unknown V, whole or
\* with three bytes after the last address.
QueriedLists ==
    UNION { [1..n -> {AddrK, AddrU, AddrV}] : n \in 0..3 }

WhoisRequests ==
    { WhoisRequest(1, qs, extra) : qs \in QueriedLists, extra \in {0, 3} }

\* An authenticated WHOIS from a known peer is handled.
HandleWhois ==
    /\ ~crashed
    /\ delivered < MaxVerbCalls
    /\ \E a \in AllAddrs, pkt \in WhoisRequests :
         /\ m_peers[a] # NoPeer
         /\ \E h \in { m_WHOIS(WhoisHandling, a, pkt, now) } :
              /\ m_peers' = h.peers
              /\ nextObj' = h.nextObj
              /\ trace' = h.trace
              /\ wire' = h.wire
              /\ last' = [NoCall EXCEPT !.kind = "verb", !.source = a, !.pid = pkt.pid,
                                        !.verb = "WHOIS", !.ret = h.ret,
                                        !.len = pkt.len, !.records = pkt.queried,
                                        !.peerBefore = TRUE, !.peerKnown = TRUE]
    /\ delivered' = delivered + 1
    /\ rxLog' = <<>>
    /\ UNCHANGED <<m_paths, threadVars, now, m_rootPeers, m_probeIndex, m_whoisQueue,
                   m_inputPacketAssembler, expect, msgCounter, completions, crashed,
                   locking, locator>>

\* K speaks protocol 11 and the root R protocol 10.
WhoisInit ==
    /\ IngressIdle
    /\ m_rootPeers = <<AddrR>>
    /\ m_paths = [k \in PathKeys |->
                    IF k = s_getPathKey(0, PhysR)
                    THEN [NewPath(3, 0, PhysR) EXCEPT !.lastReceive = StartTime - 1]
                    ELSE NoPath]
    /\ m_peers = [a \in AllAddrs |->
                    IF a = AddrK THEN [NewPeer(1, IdK) EXCEPT !.m_vProto = 11]
                    ELSE IF a = AddrR
                    THEN [NewPeer(2, IdR) EXCEPT !.m_paths = <<s_getPathKey(0, PhysR)>>,
                                                 !.m_vProto = 10]
                    ELSE NoPeer]
    /\ nextObj = 3
    /\ tpc = [t \in Threads |-> "idle"]
    /\ targ = [t \in Threads |-> NoArg]
    /\ tnew = [t \in Threads |-> 0]
    /\ pathRet = [a \in AllPathArgs |-> {}]
    /\ peerRet = [a \in AllAddrs |-> {}]
    /\ firstPeer = [a \in AllAddrs |-> 0]

WhoisNext == HandleWhois \/ Tick

SpecWhois == WhoisInit /\ [][WhoisNext]_vars

(***************************************************************************)
(* Concurrent callers of the WHOIS queue.  A thread takes its now when it *)
(* enters; the block of onRemotePacket that files the packet and the pass *)
(* of m_sendPendingWhois over the queue each hold m_whoisQueue_l, so each *)
(* is one step; the packets are built and sent after the lock is given    *)
(* up.  In this specification wire keeps every WHOIS sent, with the now   *)
(* of the call that sent it.                                               *)
(***************************************************************************)
OnlyWhoisQueue ==
    UNCHANGED <<m_paths, nextObj, tnew, pathRet, peerRet, firstPeer, now, m_rootPeers,
                m_probeIndex, m_inputPacketAssembler, trace, rxLog, last, completions,
                crashed, locking, locator>>

UnknownSources == {AddrK, AddrV}

\* onRemotePacket, unauthenticated branch, the block under the lock.
WqArrive(t) ==
    /\ tpc[t] = "idle"
    /\ delivered < MaxPeerCalls
    /\ delivered' = delivered + 1
    /\ \E source \in UnknownSources, size \in {64} :
         LET wq == m_whoisQueue[source]
             wpidx == WaitingSlot(wq)
             wq2 == [wq EXCEPT !.waitingPacketCount = @ + 1,
                               !.waitingPacketSize[wpidx] = size,
                               !.waitingPacket[wpidx] = delivered + 1]
             sendPending == (now - wq2.lastRetry) >= ZT_WHOIS_RETRY_DELAY
         IN /\ m_whoisQueue' = [m_whoisQueue EXCEPT ![source] = wq2]
            /\ tpc' = [tpc EXCEPT ![t] = IF sendPending THEN "whois_pending" ELSE "idle"]
            /\ targ' = [targ EXCEPT ![t] = [op |-> "whois", now |-> now]]
    /\ UNCHANGED <<m_peers, expect, msgCounter, wire>>
    /\ OnlyWhoisQueue

\* m_sendPendingWhois up to the end of the block under the lock.
WqCollect(t) ==
    /\ tpc[t] = "whois_pending"
    /\ LET root == TopologyRoot(m_peers, m_rootPeers)
           rp == PeerPath(root, m_paths, targ[t].now)
           due == WhoisCollect(m_whoisQueue, targ[t].now)
       IN IF root = NoPeer
          THEN /\ tpc' = [tpc EXCEPT ![t] = "idle"]
               /\ UNCHANGED <<m_peers, m_whoisQueue, targ>>
          ELSE /\ m_peers' = [m_peers EXCEPT ![root.identity.addr] = rp[1]]
               /\ IF rp[2] = NoKey
                  THEN /\ tpc' = [tpc EXCEPT ![t] = "idle"]
                       /\ UNCHANGED <<m_whoisQueue, targ>>
                  ELSE /\ m_whoisQueue' = due[1]
                       /\ tpc' = [tpc EXCEPT ![t] =
                                    IF due[2] = {} THEN "idle" ELSE "whois_send"]
                       /\ targ' = [targ EXCEPT ![t] =
                                     [op |-> "whois", now |-> targ[t].now,
                                      toSend |-> due[2], root |-> root.identity.addr,
                                      rootPath |-> rp[2]]]
    /\ UNCHANGED <<delivered, expect, msgCounter, wire>>
    /\ OnlyWhoisQueue

\* m_sendPendingWhois from the end of that block on.
WqSend(t) ==
    /\ tpc[t] = "whois_send"
    /\ LET out == WhoisPackets(targ[t].toSend, msgCounter, targ[t].root,
                               m_paths[targ[t].rootPath])
       IN /\ wire' = wire \o [i \in 1..Len(out) |->
                                [verb |-> "WHOIS", dest |-> out[i].dest, to |-> out[i].to,
                                 pid |-> out[i].pid, addrs |-> out[i].addrs,
                                 now |-> targ[t].now]]
          /\ expect' = SentAll(expect, out, targ[t].now)
          /\ msgCounter' = msgCounter + Len(out)
    /\ tpc' = [tpc EXCEPT ![t] = "idle"]
    /\ targ' = [targ EXCEPT ![t] = [op |-> "whois", now |-> targ[t].now]]
    /\ UNCHANGED <<m_peers, m_whoisQueue, delivered>>
    /\ OnlyWhoisQueue

\* The clock starts where a fresh entry (lastRetry 0) is due; the root R
\* has a path it has just been heard on.
WhoisQueueInit ==
    /\ now = ZT_WHOIS_RETRY_DELAY
    /\ delivered = 0
    /\ m_probeIndex = (7 :> {AddrK})
    /\ m_whoisQueue = [a \in AllAddrs |-> NoItem]
    /\ m_inputPacketAssembler = [i \in PIDs |-> NoEntry]
    /\ expect = {}
    /\ msgCounter = 0
    /\ wire = <<>>
    /\ trace = <<>>
    /\ rxLog = <<>>
    /\ last = NoCall
    /\ completions = [i \in PIDs |-> 0]
    /\ crashed = FALSE
    /\ locking = [t \in 1..NumThreads |-> [todo |-> <<>>, held |-> <<>>]]
    /\ locator = NewLocator
    /\ m_rootPeers = <<AddrR>>
    /\ m_paths = [k \in PathKeys |->
                    IF k = s_getPathKey(0, PhysR)
                    THEN [NewPath(3, 0, PhysR) EXCEPT !.lastReceive = ZT_WHOIS_RETRY_DELAY]
                    ELSE NoPath]
    /\ m_peers = [a \in AllAddrs |->
                    IF a = AddrR
                    THEN [NewPeer(2, IdR) EXCEPT !.m_paths = <<s_getPathKey(0, PhysR)>>]
                    ELSE NoPeer]
    /\ nextObj = 3
    /\ tpc = [t \in Threads |-> "idle"]
    /\ targ = [t \in Threads |-> NoArg]
    /\ tnew = [t \in Threads |-> 0]
    /\ pathRet = [a \in AllPathArgs |-> {}]
    /\ peerRet = [a \in AllAddrs |-> {}]
    /\ firstPeer = [a \in AllAddrs |-> 0]

WhoisQueueNext ==
    \/ \E t \in Threads : WqArrive(t)
    \/ \E t \in Threads : WqCollect(t)
    \/ \E t \in Threads : WqSend(t)
    \/ Tick

SpecWhoisQueue == WhoisQueueInit /\ [][WhoisQueueNext]_vars

(***************************************************************************)
(* The packet loops of m_sendPendingWhois for a buffer outp of any size:  *)
(* WhoisPackets is what they do for the size the code declares, which     *)
(* holds more addresses than the model has.  toSend is a vector, in the   *)
(* order the queue was walked.                                             *)
(***************************************************************************)
SizeofOutp == ZT_DEFAULT_UDP_MTU - ZT_PROTO_MIN_PACKET_LENGTH

\* The inner loop with the iterator left where it is: the packet is
\* filled with copies of one address.
RECURSIVE WhoisCopyNoAdvance(_, _, _)
WhoisCopyNoAdvance(as, p, room) ==
    IF as # <<>> /\ p < room - ZT_ADDRESS_LENGTH
    THEN <<as[Len(as)]>> \o WhoisCopyNoAdvance(Tail(as), p + ZT_ADDRESS_LENGTH, room)
    ELSE <<>>

\* The inner loop: the addresses copied into one packet from position p.
RECURSIVE WhoisCopy(_, _, _)
WhoisCopy(as, p, room) ==
    IF as # <<>> /\ p < room - ZT_ADDRESS_LENGTH
    THEN <<Head(as)>> \o WhoisCopy(Tail(as), p + ZT_ADDRESS_LENGTH, room)
    ELSE <<>>

\* The outer loop: <<packet ID, addresses>> for each packet built.  A
\* buffer with no room for one address after the header is not modelled:
\* the loop would not advance.
RECURSIVE WhoisSeries(_, _, _)
WhoisSeries(as, ctr, room) ==
    IF as = <<>> THEN <<>>
    ELSE LET list == WhoisCopy(as, ZT_PROTO_PACKET_PAYLOAD_START, room) IN
         <<[pid |-> ctr + 1, list |-> list]>>
         \o WhoisSeries(SubSeq(as, Len(list) + 1, Len(as)), ctr + 1, room)

\* What one pass of the outer loop does with its packet, in order.
WhoisSteps(pid) ==
    << [step |-> "nextMessage", pid |-> pid],
       [step |-> "newPacket", pid |-> pid],
       [step |-> "armor", pid |-> pid],
       [step |-> "expect_sending", pid |-> pid],
       [step |-> "send", pid |-> pid] >>

RECURSIVE WhoisEvents(_)
WhoisEvents(series) ==
    IF series = <<>> THEN <<>> ELSE WhoisSteps(Head(series).pid) \o WhoisEvents(Tail(series))

\* Buffers with room for one and for two addresses, and the code's.
OutpSizes ==
    { ZT_PROTO_PACKET_PAYLOAD_START + (ZT_ADDRESS_LENGTH * n) + 1 : n \in 1..2 }
    \cup { SizeofOutp }

\* m_sendPendingWhois from "if (toSend.empty())" on, for addresses that
\* the pass over the queue has collected.
SendCollected ==
    /\ ~crashed
    /\ delivered < MaxDeliveries
    /\ \E toSend \in SUBSET AllAddrs, room \in OutpSizes :
         LET root == TopologyRoot(m_peers, m_rootPeers)
             via == m_paths[root.m_paths[1]]
             series == WhoisSeries(SetToSeq(toSend), msgCounter, room)
             out == [i \in 1..Len(series) |->
                       [verb |-> "WHOIS", to |-> via.r, localSocket |-> via.l,
                        dest |-> root.identity.addr, pid |-> series[i].pid,
                        addrs |-> { series[i].list[n] : n \in 1..Len(series[i].list) },
                        count |-> Len(series[i].list)]]
         IN /\ wire' = out
            /\ expect' = SentAll(expect, out, now)
            /\ msgCounter' = msgCounter + Len(out)
            /\ last' = [NoCall EXCEPT !.kind = "whois_send", !.len = room,
                                      !.records = WhoisEvents(series)]
            /\ targ' = [targ EXCEPT ![1] = [op |-> "whois_send", toSend |-> toSend]]
    /\ delivered' = delivered + 1
    /\ UNCHANGED <<m_paths, m_peers, nextObj, tpc, tnew, pathRet, peerRet, firstPeer, now,
                   m_rootPeers, m_probeIndex, m_whoisQueue, m_inputPacketAssembler, trace,
                   rxLog, completions, crashed, locking, locator>>

WhoisSendNext == SendCollected \/ Tick

SpecWhoisSend == WhoisQueueInit /\ [][WhoisSendNext]_vars

(***************************************************************************)
(* Packets of unknown sources with and without a root.  The root R, when  *)
(* there is one, has a path it was last heard on at the start, a little   *)
(* before, or a path alive timeout before.                                 *)
(***************************************************************************)
UnknownDatagrams ==
    { [PacketHead(i, FALSE, id, ZT_PROTO_CIPHER_SUITE__POLY1305_SALSA2012, "ECHO", id.pub)
         EXCEPT !.len = IF i = 1 THEN 64 ELSE ZT_PROTO_MIN_PACKET_LENGTH] :
        i \in PIDs, id \in {IdK, IdV} }

OnUnknown == Deliver(FromAddrs, UnknownDatagrams, MaxSeries)

\* An authenticated packet of the root arrives over its path.
RootHeard ==
    /\ m_rootPeers # <<>>
    /\ m_paths[s_getPathKey(0, PhysR)].lastReceive < now
    /\ m_paths' = PathReceived(m_paths, s_getPathKey(0, PhysR), now)
    /\ m_peers' = [m_peers EXCEPT ![AddrR] = PeerReceived(@, s_getPathKey(0, PhysR), now)]
    /\ UNCHANGED <<nextObj, threadVars, now, delivered, m_rootPeers, m_probeIndex,
                   m_whoisQueue, m_inputPacketAssembler, expect, msgCounter, wire, trace,
                   rxLog, last, completions, crashed, locking, locator>>

WhoisRootInit ==
    /\ IngressIdle
    /\ m_rootPeers \in {<<>>, <<AddrR>>}
    /\ \E lr \in {StartTime - ZT_PATH_ALIVE_TIMEOUT, StartTime - 2, StartTime} :
         m_paths = [k \in PathKeys |->
                      IF k = s_getPathKey(0, PhysR)
                      THEN [NewPath(3, 0, PhysR) EXCEPT !.lastReceive = lr]
                      ELSE NoPath]
    /\ m_peers = [a \in AllAddrs |->
                    IF a = AddrR
                    THEN [NewPeer(2, IdR) EXCEPT !.m_paths = <<s_getPathKey(0, PhysR)>>]
                    ELSE NoPeer]
    /\ nextObj = 3
    /\ tpc = [t \in Threads |-> "idle"]
    /\ targ = [t \in Threads |-> NoArg]
    /\ tnew = [t \in Threads |-> 0]
    /\ pathRet = [a \in AllPathArgs |-> {}]
    /\ peerRet = [a \in AllAddrs |-> {}]
    /\ firstPeer = [a \in AllAddrs |-> 0]

WhoisRootNext == OnUnknown \/ RootHeard \/ Tick

SpecWhoisRoot == WhoisRootInit /\ [][WhoisRootNext]_vars

(***************************************************************************)
(* Trace.  Each emitter declares an event struct ev, sets ev.evSize to    *)
(* sizeof(ev) and ev.evType to a ZT_TraceEventType value, fills the other *)
(* fields and posts ev as one ZT_EVENT_TRACE.  Structs and enumerators    *)
(* are named without their ZT_TraceEvent_ and ZT_TRACE_ prefixes.         *)
(***************************************************************************)
ZT_TraceEventType ==
    [UNEXPECTED_ERROR |-> 0,
     VL1_RESETTING_PATHS_IN_SCOPE |-> 1,
     VL1_TRYING_NEW_PATH |-> 2,
     VL1_LEARNED_NEW_PATH |-> 3,
     VL1_INCOMING_PACKET_DROPPED |-> 4,
     VL2_OUTGOING_FRAME_DROPPED |-> 100,
     VL2_INCOMING_FRAME_DROPPED |-> 101,
     VL2_NETWORK_CONFIG_REQUESTED |-> 102,
     VL2_NETWORK_FILTER |-> 103]

\* For each emitter: the struct of its ev and the enumerator it stores.
TraceEmitters ==
    { [emitter |-> "unexpectedError", struct |-> "UNEXPECTED_ERROR",
       evType |-> "UNEXPECTED_ERROR"],
      [emitter |-> "_resettingPathsInScope", struct |-> "VL1_RESETTING_PATHS_IN_SCOPE",
       evType |-> "VL1_RESETTING_PATHS_IN_SCOPE"],
      [emitter |-> "_tryingNewPath", struct |-> "VL1_TRYING_NEW_PATH",
       evType |-> "VL1_TRYING_NEW_PATH"],
      [emitter |-> "_learnedNewPath", struct |-> "VL1_LEARNED_NEW_PATH",
       evType |-> "VL1_LEARNED_NEW_PATH"],
      [emitter |-> "_incomingPacketDropped", struct |-> "VL1_INCOMING_PACKET_DROPPED",
       evType |-> "VL1_INCOMING_PACKET_DROPPED"],
      [emitter |-> "_outgoingNetworkFrameDropped", struct |-> "VL2_OUTGOING_FRAME_DROPPED",
       evType |-> "VL2_OUTGOING_FRAME_DROPPED"],
      [emitter |-> "_incomingNetworkFrameDropped", struct |-> "VL2_INCOMING_FRAME_DROPPED",
       evType |-> "VL2_INCOMING_FRAME_DROPPED"],
      [emitter |-> "_networkConfigRequestSent", struct |-> "VL2_NETWORK_CONFIG_REQUESTED",
       evType |-> "VL2_NETWORK_CONFIG_REQUESTED"],
      [emitter |-> "_networkFilter", struct |-> "VL2_NETWORK_FILTER",
       evType |-> "VL2_NETWORK_FILTER"],
      [emitter |-> "_credentialRejected", struct |-> "VL2_CREDENTIAL_REJECTED",
       evType |-> "VL2_NETWORK_FILTER"] }

\* The event an emitter posts.
TraceEvent(m, codeLocation) ==
    [event |-> "ZT_EVENT_TRACE", emitter |-> m.emitter, struct |-> m.struct,
     evSize |-> <<"sizeof", m.struct>>, evType |-> ZT_TraceEventType[m.evType],
     codeLocation |-> codeLocation]

\* An emitter is called.
TraceCall ==
    /\ ~crashed
    /\ delivered < MaxSeries
    /\ \E m \in TraceEmitters, codeLocation \in 1..2 :
         trace' = <<TraceEvent(m, codeLocation)>>
    /\ last' = [NoCall EXCEPT !.kind = "trace"]
    /\ delivered' = delivered + 1
    /\ wire' = <<>>
    /\ rxLog' = <<>>
    /\ UNCHANGED <<m_paths, m_peers, nextObj, threadVars, now, m_rootPeers, m_probeIndex,
                   m_whoisQueue, m_inputPacketAssembler, expect, msgCounter, completions,
                   crashed, locking, locator>>

TraceNext == TraceCall \/ Tick

SpecTrace == Init /\ [][TraceNext]_vars

VerbsNext == OnQueued \/ OnVerb \/ Tick

SpecVerbs == Init /\ [][VerbsNext]_vars

\* Datagrams, with exceptions raised during the calls.
ThrowingNext == OnThrowing \/ Tick

SpecThrowing == Init /\ [][ThrowingNext]_vars

\* A Locator is built, signed and changed.
SpecLocator == Init /\ [][LocatorNext]_vars

\* Callers of the methods of the Peer K, which has been heard from at two
\* addresses, one and two ticks ago, and has not prioritized its paths yet.
PeerCallsInit ==
    /\ IngressIdle
    /\ m_rootPeers = <<>>
    /\ \E la, lb \in Latencies :
         m_paths = [k \in PathKeys |->
                      IF k = s_getPathKey(0, PhysK)
                      THEN [NewPath(2, 0, PhysK) EXCEPT !.lastReceive = StartTime - 2,
                                                        !.latency = la]
                      ELSE IF k = s_getPathKey(0, PhysK6)
                      THEN [NewPath(3, 0, PhysK6) EXCEPT !.lastReceive = StartTime - 1,
                                                         !.latency = lb]
                      ELSE NoPath]
    /\ m_peers = [a \in AllAddrs |->
                    IF a = AddrK
                    THEN [NewPeer(1, IdK) EXCEPT !.m_paths = <<s_getPathKey(0, PhysK),
                                                              s_getPathKey(0, PhysK6)>>]
                    ELSE NoPeer]
    /\ nextObj = 3
    /\ tpc = [t \in Threads |-> "idle"]
    /\ targ = [t \in Threads |-> NoArg]
    /\ tnew = [t \in Threads |-> 0]
    /\ pathRet = [a \in AllPathArgs |-> {}]
    /\ peerRet = [a \in AllAddrs |-> {}]
    /\ firstPeer = [a \in AllAddrs |-> 0]

PeerCallsNext ==
    \/ \E t \in Threads : \/ PathCheck(t) \/ PathPrioritize(t) \/ PathRead(t)
                          \/ LatencyCall(t) \/ GateCheck(t) \/ GateStore(t)
    \/ PeerHeard
    \/ Tick

SpecPeerCalls == PeerCallsInit /\ [][PeerCallsNext]_vars

\* Resets of K's paths beside a caller of Peer::path and arriving packets.
ResetNext ==
    \/ ResetCall
    \/ PathCheck(1) \/ PathPrioritize(1) \/ PathRead(1)
    \/ PeerHeard
    \/ Tick

SpecReset == PeerCallsInit /\ [][ResetNext]_vars

PathsInit == TopoInit /\ IngressIdle /\ m_rootPeers = <<>>

PathsNext == \E t \in Threads : PathRLock(t) \/ PathWLock(t)

SpecPaths == PathsInit /\ [][PathsNext]_vars

\* Threads calling Topology::peer and Topology::add on an empty Topology.
PeersNext == \E t \in Threads : PeerRLock(t) \/ PeerLoad(t) \/ PeerWLock(t) \/ AddCall(t)

SpecPeers == PathsInit /\ [][PeersNext]_vars

(***************************************************************************)
(* Properties of Topology under concurrent callers.                        *)
(***************************************************************************)
AllIdle == \A t \in Threads : tpc[t] = "idle"

\* C1: under every interleaving, all calls of Topology::path with one
\* (localSocket, remoteAddress) return one and the same Path instance, which
\* is the single Path the map holds under the pair's key; this includes two
\* threads that both missed under the read lock and both constructed a Path.
C1_PathIsCanonical ==
    \A a \in TopoPathArgs : \A p \in pathRet[a] :
        /\ m_paths[s_getPathKey(a[1], a[2])].id = p.id
        /\ \A q \in pathRet[a] : q.id = p.id

\* Two Paths were constructed for one pair, for which alone path was called:
\* both threads missed under the read lock, and one Path was discarded.
C1_BothConstructed ==
    /\ AllIdle
    /\ nextObj = 2
    /\ \E a \in TopoPathArgs :
         /\ pathRet[a] # {}
         /\ \A b \in TopoPathArgs \ {a} : pathRet[b] = {}

\* C2: calls of Topology::path with two distinct (localSocket,
\* remoteAddress) pairs return two distinct Paths, and every Path returned
\* reports the local socket and remote address it was asked for, also when
\* the two pairs have the same composite key.
C2_PathPerPair ==
    \A a \in TopoPathArgs : \A p \in pathRet[a] :
        /\ p.l = a[1]
        /\ p.r = a[2]
        /\ \A b \in TopoPathArgs \ {a} : \A q \in pathRet[b] : q.id # p.id

\* C3: under every interleaving of peer() and add() calls for an address
\* the map did not hold, the map holds the Peer inserted first, never a
\* replacement and never under another address, and every call that returns
\* a Peer returns that first-inserted Peer.
C3_FirstInsertedPeerWins ==
    \A a \in AllAddrs :
        /\ firstPeer[a] # 0 => m_peers[a] # NoPeer
        /\ m_peers[a] # NoPeer => /\ m_peers[a].id = firstPeer[a]
                                  /\ m_peers[a].identity.addr = a
        /\ peerRet[a] \subseteq {firstPeer[a]} \ {0}

\* Two Peers were made for U and for no other address, one was inserted and
\* returned, the other discarded.
C3_BothMadeAPeer ==
    /\ AllIdle
    /\ nextObj = 2
    /\ m_peers[AddrK] = NoPeer
    /\ peerRet[AddrU] = {firstPeer[AddrU]}
    /\ firstPeer[AddrU] # 0

(***************************************************************************)
(* Properties of the ingress pipeline.  A step with delivered changed is   *)
(* one call of onRemotePacket; the primed history variables tell what the  *)
(* call did.                                                               *)
(***************************************************************************)
Called == delivered' # delivered

HelloFailures ==
    {"bad_identity", "address_mismatch", "invalid_identity", "mac_failed", "bad_sent_to"}

\* C4: a HELLO that fails a check of the HELLO handler (identity
\* unparsable, identity address other than the packet source, identity
\* not valid, MAC or HMAC wrong, sent-to address unparsable) is
\* trace-dropped, and no Peer exists for the source address afterwards
\* unless one existed before.
C4_FailedHelloLeavesNoPeer ==
    [][ (Called /\ last'.kind = "hello" /\ last'.helloCase \in HelloFailures)
          => /\ trace' # <<>>
             /\ (m_peers'[last'.source] # NoPeer => m_peers[last'.source] # NoPeer) ]_vars

\* C5: a HELLO that passes the identity checks and the MAC check makes
\* the receiver send an OK(HELLO) to the sender, and the dispatcher logs
\* Peer::received for the HELLO.
C5_HelloIsAnswered ==
    [][ (Called /\ last'.kind = "hello" /\ last'.helloCase = "end")
          => /\ \E i \in 1..Len(wire') : wire'[i].verb = "OK" /\ wire'[i].to = last'.from
             /\ \E i \in 1..Len(rxLog') : /\ rxLog'[i].peer = last'.source
                                            /\ rxLog'[i].verb = "HELLO" ]_vars

\* C6: an ECHO of a known peer that passes the MAC check and that the
\* ECHO rate gate permits is answered with exactly one OK(ECHO), sent to
\* the address the request came from.
C6_EchoIsAnswered ==
    [][ (/\ Called
         /\ last'.kind = "authenticated"
         /\ last'.verb = "ECHO"
         /\ last'.peerBefore
         /\ rateGateEchoRequest(m_peers[last'.source], now)[2])
          => /\ Len(wire') = 1
             /\ wire'[1].verb = "OK"
             /\ wire'[1].to = last'.from ]_vars

\* C7: for a fragmented packet whose head and tail fragments are delivered
\* in any order, ingress goes past assembly exactly once per packet ID,
\* namely when the last missing part arrives; every result of assemble
\* other than COMPLETE ends the call with nothing sent, traced, logged or
\* queued, so a fragment delivered again causes no second dispatch.
C7_OneDispatchPerPacket ==
    /\ [](\A i \in PIDs :
            /\ completions[i] <= 1
            /\ LET e == m_inputPacketAssembler[i] IN
                 (e.total > 0 /\ e.have = 0..(e.total - 1)) => completions[i] = 1)
    /\ [][ (Called /\ last'.viaDefrag /\ last'.asmResult # "COMPLETE")
             => /\ last'.kind = "assembly"
                /\ completions' = completions
                /\ wire' = <<>> /\ trace' = <<>> /\ rxLog' = <<>>
                /\ m_peers' = m_peers
                /\ m_whoisQueue' = m_whoisQueue ]_vars

\* A fragment arrived again after its packet had been assembled and handed
\* on, and was refused as a duplicate.
C7_RedeliveredAfterComplete ==
    /\ last.viaDefrag
    /\ last.asmResult = "ERR_DUPLICATE_FRAGMENT"
    /\ m_inputPacketAssembler[last.pid].done
    /\ completions[last.pid] = 1

\* The map entries other than the Path of the physical address a.
OtherPathsSame(a) ==
    \A k \in PathKeys :
        (\A l \in LocalSockets : k # s_getPathKey(l, a)) => m_paths'[k] = m_paths[k]

\* C8 as stated: a packet of a known peer that fails the MAC check is
\* traced as dropped for MAC_FAILED, nothing is sent, and no state of the
\* node differs from the state before: peers, paths, WHOIS queue, Expect.
C8_MacFailureChangesNothing ==
    [][ (Called /\ last'.kind = "mac_failed" /\ last'.peerBefore)
          => /\ trace' = <<Dropped("cc89c812", "MAC_FAILED")>>
             /\ wire' = <<>>
             /\ m_peers' = m_peers
             /\ m_paths' = m_paths
             /\ m_whoisQueue' = m_whoisQueue
             /\ expect' = expect ]_vars

\* C8 amended: a packet of a known peer that fails the MAC check is traced
\* as dropped for MAC_FAILED, nothing is sent or logged, and the peers, the
\* WHOIS queue, the Expect table and the message counter are as before;
\* of the paths only the one the datagram arrived on differs: it exists and
\* its last-receive time is the time of the call.
C8_MacFailureKeepsPeersAndQueue ==
    [][ (Called /\ last'.kind = "mac_failed" /\ last'.peerBefore)
          => /\ trace' = <<Dropped("cc89c812", "MAC_FAILED")>>
             /\ wire' = <<>>
             /\ rxLog' = <<>>
             /\ m_peers' = m_peers
             /\ m_whoisQueue' = m_whoisQueue
             /\ expect' = expect
             /\ msgCounter' = msgCounter
             /\ OtherPathsSame(last'.from)
             /\ \E l \in LocalSockets :
                  /\ m_paths'[s_getPathKey(l, last'.from)] # NoPath
                  /\ m_paths'[s_getPathKey(l, last'.from)].lastReceive = now ]_vars

\* A packet of the known K failed the MAC check on a path that the call
\* itself created.
C8_MacFailureOnNewPath ==
    /\ last.kind = "mac_failed"
    /\ last.peerBefore
    /\ last.source = AddrK
    /\ last.from = PhysX
    /\ delivered = 1

\* C9 as stated: a datagram that is malformed or has not passed
\* authentication makes onRemotePacket send nothing to the datagram's
\* sender.
C9_NothingSentToSender ==
    [][ (Called /\ last'.kind # "authenticated" /\ ~last'.helloMacPassed)
          => \A i \in 1..Len(wire') : wire'[i].to # last'.from ]_vars

\* C9 amended: a datagram that is malformed or has not passed
\* authentication never makes onRemotePacket send an OK or an ERROR; what
\* it sends is a HELLO to the sender of a probe, on behalf of a Peer filed
\* under the probe's token, or a WHOIS to the root over the root's path
\* after the packet was put into the WHOIS queue.
C9_OnlyHelloOrWhoisSent ==
    [][ (Called /\ last'.kind # "authenticated" /\ ~last'.helloMacPassed)
          => \A i \in 1..Len(wire') :
               \/ /\ wire'[i].verb = "HELLO"
                  /\ last'.kind = "probe"
                  /\ wire'[i].to = last'.from
                  /\ \E t \in DOMAIN m_probeIndex : wire'[i].dest \in m_probeIndex[t]
               \/ /\ wire'[i].verb = "WHOIS"
                  /\ last'.queued
                  /\ m_rootPeers # <<>>
                  /\ wire'[i].dest = m_rootPeers[1]
                  /\ Len(m_peers'[m_rootPeers[1]].m_paths) > 0
                  /\ wire'[i].to = m_paths'[m_peers'[m_rootPeers[1]].m_paths[1]].r ]_vars

\* A packet of an unknown source arrived from the root's physical address
\* and a WHOIS went back to that address.
C9_WhoisToTheSender ==
    /\ last.kind = "queued"
    /\ ~last.peerKnown
    /\ Len(wire) = 1
    /\ wire[1].verb = "WHOIS"
    /\ wire[1].to = last.from

\* C10: an assembled packet other than a plaintext HELLO is put into the
\* WHOIS queue exactly when Topology has no Peer for its source address.
C10_QueuedIffUnknown ==
    [][ (Called /\ last'.kind \in {"queued", "mac_failed", "authenticated"})
          => (last'.queued <=> ~last'.peerKnown) ]_vars

(***************************************************************************)
(* Properties of the verb handlers.  A step that sets last.kind to "verb"  *)
(* is a handler call; any other step that changes delivered is a call of   *)
(* onRemotePacket.                                                         *)
(***************************************************************************)
Handled == Called /\ last'.kind = "verb"

Arrived == Called /\ last'.kind # "verb"

\* C11: once the root's OK(WHOIS) with V's identity has been accepted while
\* a packet of V waits in the WHOIS queue, the next call of onRemotePacket
\* finds V known and takes V's item out of the queue.
C11_QueuedPacketProcessedAfterOk ==
    [][ ( /\ last.kind = "verb" /\ last.verb = "OK" /\ last.inReVerb = "WHOIS"
          /\ last.source = AddrR /\ last.ret = "true"
          /\ m_whoisQueue[AddrV] # NoItem
          /\ Arrived )
        => ( /\ m_peers'[AddrV] # NoPeer
             /\ m_whoisQueue'[AddrV] = NoItem ) ]_vars

\* The try-queue of the Peer under the address a, empty if there is none.
TryQueue(peers, a) == IF peers[a] = NoPeer THEN <<>> ELSE peers[a].m_tryQueue

\* The sender of the packet a handler was called with is none of the roots.
SenderIsNoRoot == \A i \in 1..Len(m_rootPeers) : m_rootPeers[i] # last'.source

\* C12: a RENDEZVOUS from a peer that is not a root adds no endpoint to
\* the try-queue of any peer and emits no trying-new-path trace.
C12_RendezvousOnlyFromRoots ==
    [][ (Handled /\ last'.verb = "RENDEZVOUS" /\ SenderIsNoRoot)
        => ( /\ \A a \in AllAddrs : TryQueue(m_peers', a) = TryQueue(m_peers, a)
             /\ \A i \in 1..Len(trace') : trace'[i].ev # "tryingNewPath" ) ]_vars

\* A RENDEZVOUS of the peer K, not a root, naming the known peer K at an
\* IPv4 address with a port, has been handled.
C12_RendezvousFromNonRoot ==
    /\ last.kind = "verb" /\ last.verb = "RENDEZVOUS" /\ last.ret = "true"
    /\ last.source = AddrK /\ m_rootPeers = <<AddrR>>
    /\ last.peerAddress = AddrK /\ last.port # 0 /\ last.addressLength = 4

\* C13: when a root's RENDEZVOUS names the known peer K at an IPv4 address
\* with a port, the endpoint is put into the try-queue of K, the peer
\* named, not of the root that sent the message.
C13_EndpointInNamedPeersQueue ==
    [][ ( /\ Handled /\ last'.verb = "RENDEZVOUS" /\ last'.ret = "true"
          /\ last'.source = AddrR /\ isRoot(m_peers, m_rootPeers, IdR)
          /\ last'.peerAddress = AddrK /\ m_peers[AddrK] # NoPeer
          /\ last'.port # 0 /\ last'.addressLength = 4 )
        => ( /\ \E i \in 1..Len(TryQueue(m_peers', AddrK)) :
                   TryQueue(m_peers', AddrK)[i].target = PhysB
             /\ TryQueue(m_peers', AddrR) = TryQueue(m_peers, AddrR) ) ]_vars

\* C14: after a well-formed PUSH_DIRECT_PATHS has been handled, every
\* IPv4 or IPv6 address among its records is in the try-queue of the peer
\* that sent it.
C14_PushedPathsInTryQueue ==
    [][ (Handled /\ last'.verb = "PUSH_DIRECT_PATHS" /\ last'.ret = "true")
        => \A i \in 1..Len(last'.records) :
             (last'.records[i].addrType \in {4, 6} /\ last'.records[i].port # 0)
             => \E j \in 1..Len(TryQueue(m_peers', last'.source)) :
                  TryQueue(m_peers', last'.source)[j].target = last'.records[i].at ]_vars

\* Expect holds an unexpired record of the packet ID at the time t.
Expected(exp, packetId, t) ==
    \E e \in exp : e.pid = packetId /\ (t - e.sent) < ZT_EXPECT_TTL

\* C15: an OK or ERROR is accepted only if Expect holds an unexpired record
\* of its in-reply-to packet ID, and accepting it retires the record, so
\* that a second reply to the same packet finds none; a reply that is not
\* expected is dropped with the reason REPLY_NOT_EXPECTED, the handler
\* returns false, and the peers are left as they were.
C15_RepliesNeedExpect ==
    [][ (Handled /\ last'.verb \in {"OK", "ERROR"} /\ ~last'.truncated)
        => ( /\ (last'.ret = "true") = Expected(expect, last'.inRePacketId, now)
             /\ \A e \in expect' : e.pid # last'.inRePacketId
             /\ last'.ret \in {"true", "false"}
             /\ last'.ret = "false"
                  => ( /\ Len(trace') = 1
                       /\ trace'[1].ev = "incomingPacketDropped"
                       /\ trace'[1].reason = "REPLY_NOT_EXPECTED"
                       /\ m_peers' = m_peers ) ) ]_vars

\* An OK in reply to the WHOIS with the packet ID 1 has been dropped in the
\* tick the WHOIS was sent in, so before its record could expire: an
\* earlier reply to the same packet had been accepted and had retired it.
C15_SecondReplyDropped ==
    /\ last.kind = "verb" /\ last.verb = "OK" /\ ~last.truncated
    /\ last.inRePacketId = 1 /\ last.ret = "false"
    /\ msgCounter = 1
    /\ m_whoisQueue[AddrV].retries = 1 /\ m_whoisQueue[AddrV].lastRetry = now
    /\ expect = {}

\* C16: a datagram of probe length is answered with a HELLO to its source
\* address for exactly the peers whose probe token is the datagram's value
\* and whose probe rate gate permits, and is not processed any further.
C16_ProbeAnsweredForCurrentToken ==
    [][ (Called /\ last'.kind = "probe")
        => ( /\ \A a \in AllAddrs :
                   (\E i \in 1..Len(wire') : wire'[i].verb = "HELLO" /\ wire'[i].dest = a)
                   <=> ( /\ m_peers[a] # NoPeer
                         /\ m_peers[a].m_probe = last'.token
                         /\ rateGateProbeRequest(m_peers[a], now)[2] )
             /\ \A i \in 1..Len(wire') : wire'[i].verb = "HELLO" /\ wire'[i].to = last'.from
             /\ m_whoisQueue' = m_whoisQueue
             /\ m_inputPacketAssembler' = m_inputPacketAssembler
             /\ trace' = <<>> /\ rxLog' = <<>> ) ]_vars

\* C17: a datagram of at least fragment length addressed to another node
\* is handed to the relay step and nothing else is done with it: it is
\* not given to the Defragmenter, no MAC is checked, it is not queued for
\* WHOIS and not dispatched, and nothing is sent.
C17_ForeignIsOnlyRelayed ==
    [][ ( /\ Called /\ last'.dest # SelfAddr
          /\ last'.len # ZT_PROTO_PROBE_LENGTH
          /\ last'.len >= ZT_PROTO_MIN_FRAGMENT_LENGTH )
        => ( /\ last'.kind = "relay"
             /\ ~last'.viaDefrag /\ ~last'.queued
             /\ m_inputPacketAssembler' = m_inputPacketAssembler
             /\ completions' = completions
             /\ m_whoisQueue' = m_whoisQueue
             /\ m_peers' = m_peers
             /\ expect' = expect
             /\ wire' = <<>> /\ trace' = <<>> /\ rxLog' = <<>> ) ]_vars

\* A fragment addressed to another node has arrived while the head of the
\* fragmented packet of the same packet ID waited in the Defragmenter.
C17_ForeignFragmentRelayed ==
    /\ last.kind = "relay" /\ last.dest = AddrOther /\ last.frag
    /\ m_inputPacketAssembler[last.pid] # NoEntry

\* C18: a packet with the cipher NONE or AES_GMAC_SIV and a verb other
\* than HELLO is never taken as authenticated, never dispatched and never
\* logged through Peer::received, whether its source is known or not.
C18_UnimplementedCipherNotAccepted ==
    [][ ( /\ Called
          /\ last'.cipher \in {ZT_PROTO_CIPHER_SUITE__NONE, ZT_PROTO_CIPHER_SUITE__AES_GMAC_SIV}
          /\ last'.verb # "HELLO" )
        => ( /\ last'.kind \notin {"authenticated", "hello"}
             /\ rxLog' = <<>>
             /\ wire' = <<>> \/ \A i \in 1..Len(wire') : wire'[i].verb = "WHOIS" ) ]_vars

\* An ECHO of the known peer K with the cipher NONE has arrived.
C18_CipherNoneFromKnownPeer ==
    /\ last.cipher = ZT_PROTO_CIPHER_SUITE__NONE /\ last.verb = "ECHO"
    /\ last.source = AddrK /\ last.peerKnown
    /\ last.kind = "queued"

\* C19: a packet of a known peer that verifies under the permanent key,
\* the peer holding no ephemeral key, is accepted and leaves a mark on the
\* Peer: the flag that asks for a new ephemeral key.
C19_PermanentKeyFlagsRekey ==
    [][ (Called /\ last'.kind = "authenticated" /\ last'.peerBefore)
        => m_peers'[last'.source] # m_peers[last'.source] ]_vars

(***************************************************************************)
(* Properties of the locking.                                              *)
(***************************************************************************)
\* The place of a lock in the order the design documents: Defragmenter,
\* Expect, WHOIS queue, per-Peer lock, Topology.paths, Topology.peers.
DocumentedRank(l) ==
    IF l.name = "Defragmenter" THEN 1
    ELSE IF l.name = "Expect" THEN 2
    ELSE IF l.name = "m_whoisQueue_l" THEN 3
    ELSE IF l.name = "m_lock" THEN 4
    ELSE IF l.name = "m_paths_l" THEN 5
    ELSE 6

\* The same order with the per-Peer lock last, after Topology.peers.
PeerLastRank(l) ==
    IF l.name = "Defragmenter" THEN 1
    ELSE IF l.name = "Expect" THEN 2
    ELSE IF l.name = "m_whoisQueue_l" THEN 3
    ELSE IF l.name = "m_paths_l" THEN 4
    ELSE IF l.name = "m_peers_l" THEN 5
    ELSE 6

\* No thread holds a lock it took after a lock of a higher rank.
HeldInOrder(rank(_)) ==
    \A t \in Threads : \A i, j \in 1..Len(locking[t].held) :
        i < j => rank(locking[t].held[i].l) <= rank(locking[t].held[j].l)

\* Some threads wait for locks that only threads among them hold.
Deadlocked ==
    \E S \in SUBSET Threads :
        /\ S # {}
        /\ \A t \in S :
              /\ Blocked(t)
              /\ Holders(t, Head(locking[t].todo).l, Head(locking[t].todo).mode) \subseteq S

\* C20 as stated: in the documented order, with the per-Peer lock below
\* Topology.paths and Topology.peers, no thread takes a lower lock while
\* it holds a higher one, and no deadlock is reached.
C20_DocumentedLockOrder == HeldInOrder(DocumentedRank) /\ ~Deadlocked

\* C20 amended: in the order Defragmenter, Expect, WHOIS queue,
\* Topology.paths, Topology.peers, per-Peer lock, no thread takes a lower
\* lock while it holds a higher one, and no deadlock is reached.
C20_PeerLockLast == HeldInOrder(PeerLastRank) /\ ~Deadlocked

\* A thread inside eachPeer holds m_peers_l and the lock of a Peer its
\* callback took, while another thread waits for m_peers_l to insert.
C20_CallbackUnderPeersLock ==
    \E t, u \in Threads :
        /\ Len(locking[t].held) = 2
        /\ locking[t].held[1].l = m_peers_l
        /\ locking[t].held[2].l.name = "m_lock"
        /\ Blocked(u)
        /\ Head(locking[u].todo) = Lock(m_peers_l, "W")

(***************************************************************************)
(* Properties of the Peer under concurrent callers.                        *)
(***************************************************************************)
\* The average of the known, positive latencies of the peer's alive direct
\* paths, or -1 if there is none.
AverageLatency(peer, paths) ==
    LET known == { i \in 1..Len(peer.m_paths) : paths[peer.m_paths[i]].latency > 0 }
        total == SeqSum([i \in 1..Len(peer.m_paths) |->
                           IF i \in known THEN paths[peer.m_paths[i]].latency ELSE 0])
    IN IF known = {} THEN -1 ELSE total \div Cardinality(known)

\* C21: every call of Peer::latency returns the sum of the known, positive
\* latencies of the peer's alive direct paths divided by their number, and
\* -1 when there is no such path.
C21_LatencyIsAverage ==
    [][ \A t \in Threads :
          LatencyCall(t) => last'.ret = AverageLatency(m_peers[AddrK], m_paths) ]_vars

\* The thread t returns from Peer::path in this step.
PathReturns(t) == tpc[t] \in {"path_prioritize", "path_read"} /\ tpc'[t] = "idle"

\* C22: Peer::path(now) returns a path only if that path is alive at now,
\* and returns none only if no path of the peer is alive at now, whichever
\* of its two branches the call takes.
C22_PathReturnedIsAlive ==
    [][ \A t \in Threads :
          PathReturns(t) =>
            IF last'.ret # NoKey
            THEN PathAlive(m_paths[last'.ret], last'.now)
            ELSE \A i \in 1..Len(m_peers[AddrK].m_paths) :
                   ~PathAlive(m_paths[m_peers[AddrK].m_paths[i]], last'.now) ]_vars

\* C23: under every interleaving of the callers of Peer::path, an execution
\* of m_prioritizePaths comes more than ZT_PEER_PRIORITIZE_PATHS_INTERVAL
\* after the execution before it on the same peer.
C23_PrioritizedOncePerInterval ==
    [][ \A t \in Threads :
          (tpc[t] = "path_prioritize" /\ tpc'[t] = "idle") =>
            (targ[t].now - m_peers[AddrK].m_lastPrioritizedPaths)
               > ZT_PEER_PRIORITIZE_PATHS_INTERVAL ]_vars

\* C24: under every interleaving of the callers of one rate gate of a peer,
\* a call that returns true has a now at least the gate's interval after
\* the now of the call that returned true before it.
C24_GateKeepsInterval ==
    [][ \A t \in Threads :
          (tpc[t] = "gate_store" /\ tpc'[t] = "idle") =>
            (targ[t].now - GateStamp(m_peers[AddrK], targ[t].op)) >= GateLimit(targ[t].op) ]_vars

(***************************************************************************)
(* Properties of the Locator.                                              *)
(***************************************************************************)
\* The endpoints of a sequence, each as often as it occurs.
EndpointBag(es) == [e \in Endpoints |-> Cardinality({ i \in 1..Len(es) : es[i] = e })]

Signed == locator.m_signature # NoSignature

\* C25: a Locator signed by the identity I verifies against I if and only
\* if its timestamp and its endpoints are those that were signed; an added,
\* removed or altered endpoint or a changed timestamp makes verify false.
C25_VerifyIffUnchanged ==
    Signed =>
      (LocatorVerify(locator, IdK) <=>
         /\ locator.m_ts = locator.signedTs
         /\ EndpointBag(locator.m_endpoints) = EndpointBag(locator.signedEndpoints))

\* A signed Locator whose timestamp alone was changed.
C25_ChangedTimestampRejected ==
    /\ Signed
    /\ locator.m_ts # locator.signedTs
    /\ locator.m_endpoints = locator.signedEndpoints
    /\ Len(locator.m_endpoints) = 2
    /\ ~LocatorVerify(locator, IdK)

(***************************************************************************)
(* Properties of onRemotePacket under exceptions.                          *)
(***************************************************************************)
\* The call caught the exception: it posted exactly one UNEXPECTED_ERROR
\* trace event and returned to the host.
CaughtAndTraced ==
    /\ last'.kind = "exception_caught"
    /\ Cardinality({ i \in 1..Len(trace') : trace'[i].ev = "unexpectedError" }) = 1

\* C26 as stated: whatever raises an exception during a call of
\* onRemotePacket, the call catches it, posts exactly one UNEXPECTED_ERROR
\* trace event and returns; no exception leaves the call.
C26_NoExceptionEscapes ==
    [][ (Called /\ last'.thrown # "none") => CaughtAndTraced ]_vars

\* C26 amended: an exception raised by a statement of the try block, which
\* begins after the Path was canonicalized and its last-receive time set,
\* is caught, posts exactly one UNEXPECTED_ERROR trace event, and the call
\* returns.
C26_ExceptionInTryCaught ==
    [][ (Called /\ last'.thrown \in {"try_enter", "try_leave"}) => CaughtAndTraced ]_vars

\* An exception raised at the end of a call that had already traced a drop.
C26_CaughtAfterDrop ==
    /\ last.thrown = "try_leave"
    /\ last.kind = "exception_caught"
    /\ Len(trace) = 2
    /\ trace[1].ev = "incomingPacketDropped"
    /\ trace[2].ev = "unexpectedError"

(***************************************************************************)
(* Properties of the dispatch.  The verb switch, from which every handler  *)
(* but that of a plaintext HELLO is called, is the body of                 *)
(* if (authenticated); a call that got there has last.kind                 *)
(* "authenticated".                                                        *)
(***************************************************************************)
\* C27: a call of onRemotePacket gets to the verb switch, the only place
\* that calls the handlers of WHOIS, ECHO, RENDEZVOUS, OK, ERROR,
\* PUSH_DIRECT_PATHS, USER_MESSAGE, ENCAP and of VL2, only if the source
\* Peer is known and the MAC of the packet verified under that Peer's key;
\* any other call logs no receipt for a verb other than HELLO.
C27_HandlersNeedAuthentication ==
    [][ Arrived =>
          /\ last'.kind = "authenticated" =>
               /\ last'.peerKnown
               /\ m_peers'[last'.source] # NoPeer
               /\ last'.mac = m_peers'[last'.source].identity.pub
          /\ \A i \in 1..Len(rxLog') : rxLog'[i].verb = "HELLO" ]_vars

\* An ECHO of the known peer K under K's key got to the verb switch.
C27_AuthenticEchoAtSwitch ==
    /\ last.kind = "authenticated"
    /\ last.verb = "ECHO"
    /\ last.source = AddrK
    /\ last.mac = IdK.pub

\* C28: a packet of a known peer that passes the MAC check is handed to
\* the handler of its verb, and Peer::received is called exactly once for
\* it, which sets the Peer's last-receive time.
C28_AuthenticPacketIsReceived ==
    [][ (Arrived /\ last'.kind = "authenticated") =>
          /\ Len(rxLog') = 1
          /\ rxLog'[1].peer = last'.source
          /\ m_peers'[last'.source].m_lastReceive = now ]_vars

\* C29: whatever a datagram is (probe, runt, for another node, fragment,
\* packet with a bad MAC or any other), the call of onRemotePacket leaves
\* the canonical Path of (localSocket, fromAddr) in place with its
\* last-receive time set to now.
C29_PathReceivedForEveryDatagram ==
    [][ Arrived =>
          \A l \in LocalSockets :
            /\ m_paths'[s_getPathKey(l, last'.from)] # NoPath
            /\ m_paths'[s_getPathKey(l, last'.from)].lastReceive = now ]_vars

\* A packet with a bad MAC came over a Path that was first heard on
\* earlier and is now marked with the time of this packet.
C29_BadMacStillMarksPath ==
    /\ last.kind = "mac_failed"
    /\ now > StartTime
    /\ m_paths[s_getPathKey(0, last.from)].lastReceive = now
    /\ delivered = 2

(***************************************************************************)
(* Properties of Peer::resetWithinScope.  A path of the Peer is alive to   *)
(* it while it is among the first m_alivePathCount entries of m_paths.     *)
(***************************************************************************)
AlivePaths(peer) == { peer.m_paths[i] : i \in 1..Len(peer.m_paths) }

\* This step is a call of resetWithinScope.
ResetReturns == Called /\ tpc' = tpc /\ last'.kind = "reset"

\* C30: a call of resetWithinScope sends an ECHO to every alive path of
\* the peer in the scope and family and leaves none of them alive; a path
\* that is not alive becomes alive only in a step in which a packet is
\* received on it; and Peer::path returns none but alive paths, so a reset
\* path is not returned until then.
C30_ResetPathsStayDown ==
    [][ /\ ResetReturns =>
             \A k \in AlivePaths(m_peers[AddrK]) :
               InScope(m_paths[k], last'.scope, last'.family) =>
                 /\ k \notin AlivePaths(m_peers'[AddrK])
                 /\ \E i \in 1..Len(wire') :
                      wire'[i].verb = "ECHO" /\ wire'[i].to = m_paths[k].r
        /\ \A k \in PeerPathKeys :
             (k \notin AlivePaths(m_peers[AddrK]) /\ k \in AlivePaths(m_peers'[AddrK])) =>
               (m_paths'[k].lastReceive = now /\ m_paths[k].lastReceive < now)
        /\ \A t \in Threads :
             (PathReturns(t) /\ last'.ret # NoKey) => last'.ret \in AlivePaths(m_peers'[AddrK])
      ]_vars

\* A reset path was heard on again and Peer::path returns it.
C30_ResetPathBack ==
    /\ last.kind = "path"
    /\ last.ret = s_getPathKey(0, PhysK)
    /\ Len(wire) = 1
    /\ wire[1].verb = "ECHO"
    /\ wire[1].to = PhysK
    /\ m_paths[s_getPathKey(0, PhysK)].lastReceive = now

\* C31: when the HELLO handler stores a new non-zero probe token for a
\* peer, Topology's probe-token lookup finds the peer under the new token
\* and no longer under the token the peer had before.
C31_ProbeIndexFollowsToken ==
    [][ \A a \in AllAddrs :
           ( /\ m_peers[a] # NoPeer /\ m_peers'[a] # NoPeer
             /\ m_peers'[a].m_probe # m_peers[a].m_probe
             /\ m_peers'[a].m_probe # 0 )
           => ( /\ a \in peersByProbeToken(m_probeIndex', m_peers'[a].m_probe)
                /\ a \notin peersByProbeToken(m_probeIndex', m_peers[a].m_probe) ) ]_vars

\* C32: a known peer's identity is never replaced through HELLO: a HELLO
\* whose identity has the address of a peer in the map and other key
\* material is dropped with the map as it was, every peer keeps its
\* identity, and every peer is filed under its identity's address.
C32_IdentityNeverReplaced ==
    [][ /\ \A a \in AllAddrs :
              m_peers[a] # NoPeer
              => (m_peers'[a] # NoPeer /\ m_peers'[a].identity = m_peers[a].identity)
        /\ \A a \in AllAddrs : m_peers'[a] # NoPeer => m_peers'[a].identity.addr = a
        /\ (Called /\ last'.kind = "hello" /\ last'.source \in AllAddrs
               /\ m_peers[last'.source] # NoPeer
               /\ last'.helloIdentity.addr = last'.source
               /\ last'.helloIdentity.pub # m_peers[last'.source].identity.pub)
           => ( /\ m_peers' = m_peers
                /\ last'.helloRet = "null"
                /\ trace' = <<Dropped("707a9891", "MAC_FAILED")>>
                /\ wire' = <<>> /\ rxLog' = <<>> ) ]_vars

\* The HELLO of an imposter of K has been dropped and K is who it was.
C32_ImposterDropped ==
    /\ last.kind = "hello" /\ last.helloCase = "identity_conflict"
    /\ last.source = AddrK
    /\ m_peers[AddrK] # NoPeer /\ m_peers[AddrK].identity = IdK

\* The identities an OK(WHOIS) series owes a request: for each queried
\* address a peer is known for, in the request's order, the identity and,
\* for a requester of protocol 11 or later, the locator.
RECURSIVE WhoisOwed(_, _, _)
WhoisOwed(peers, a, qs) ==
    IF qs = <<>> THEN <<>>
    ELSE LET found == TopologyPeer(peers, Head(qs), TRUE, 0) IN
         (IF found[2] # NoPeer
          THEN <<[identity |-> found[2].identity, locator |-> peers[a].m_vProto >= 11]>>
          ELSE <<>>)
         \o WhoisOwed(found[1], a, Tail(qs))

RECURSIVE WhoisCarried(_)
WhoisCarried(w) == IF w = <<>> THEN <<>> ELSE Head(w).records \o WhoisCarried(Tail(w))

\* C33: for an authenticated WHOIS the rate gate permits, the OK(WHOIS)
\* replies carry, for each queried address, the identity once if a peer
\* is known for it (with its locator exactly for a requester of protocol
\* 11 or later) and nothing if none is known, and no reply is sent without
\* an identity in it.
C33_WhoisAnswersEveryKnownAddress ==
    [][ (Handled /\ last'.verb = "WHOIS"
           /\ (now - m_peers[last'.source].m_lastWhoisRequestReceived) >= ZT_PEER_WHOIS_RATE_LIMIT)
        => ( /\ WhoisCarried(wire') = WhoisOwed(m_peers, last'.source, last'.records)
             /\ \A i \in 1..Len(wire') :
                   /\ wire'[i].verb = "OK" /\ wire'[i].inReVerb = "WHOIS"
                   /\ wire'[i].inRePacketId = last'.pid
                   /\ wire'[i].dest = last'.source
                   /\ wire'[i].records # <<>> ) ]_vars

\* C34: every OK(WHOIS) of a series that carries the request's packet ID
\* as in-reply-to is accepted by m_OK: after one reply to a request has
\* been accepted, a further reply to the same request that arrives while
\* no request sent can have expired is accepted too.
C34_LaterWhoisReplyAccepted ==
    [][ ( /\ Handled /\ last'.verb = "OK" /\ last'.inReVerb = "WHOIS" /\ ~last'.truncated
          /\ last.kind = "verb" /\ last.verb = "OK" /\ last.inReVerb = "WHOIS"
          /\ last.ret = "true" /\ last.inRePacketId = last'.inRePacketId
          /\ now < StartTime + ZT_EXPECT_TTL )
        => ( last'.ret = "true" /\ trace' = <<>> ) ]_vars

\* C35: for any interleaving of the callers, two WHOIS requests that name
\* the same address are sent with nows at least ZT_WHOIS_RETRY_DELAY
\* apart, and the pass that collects an address for sending sets its
\* lastRetry to the call's now and adds exactly one to its retries (and
\* leaves the entries it does not collect as they are).
C35_WhoisRetriesSpaced ==
    [][ /\ \A i, j \in 1..Len(wire') :
              (i < j /\ wire'[i].addrs \cap wire'[j].addrs # {})
              => ( \/ wire'[j].now - wire'[i].now >= ZT_WHOIS_RETRY_DELAY
                   \/ wire'[i].now - wire'[j].now >= ZT_WHOIS_RETRY_DELAY )
        /\ \A t \in Threads :
              (tpc[t] = "whois_pending" /\ tpc'[t] = "whois_send")
              => \A a \in AllAddrs :
                    IF a \in targ'[t].toSend
                    THEN /\ m_whoisQueue'[a].lastRetry = targ[t].now
                         /\ m_whoisQueue'[a].retries = m_whoisQueue[a].retries + 1
                    ELSE m_whoisQueue'[a] = m_whoisQueue[a]
        /\ \A t \in Threads :
              (tpc[t] = "whois_send" /\ tpc'[t] = "idle")
              => \A a \in targ[t].toSend :
                    \E i \in (Len(wire) + 1)..Len(wire') :
                       a \in wire'[i].addrs /\ wire'[i].now = targ[t].now ]_vars

\* Two WHOIS requests for V have been sent, by different calls.
C35_TwoRequestsForOneAddress ==
    \E i, j \in 1..Len(wire) :
       /\ i < j /\ AddrV \in wire[i].addrs /\ AddrV \in wire[j].addrs
       /\ m_whoisQueue[AddrV].retries = 2

\* C36: a HELLO that passes the MAC check and whose metadata dictionary
\* is malformed (its size reaches past the packet, or it does not decode)
\* is dropped: the drop is traced, the peer's remote version and probe
\* token stay as they were and Peer::received is not called for it.
C36_MalformedDictionaryDropped ==
    [][ (Called /\ last'.kind = "hello" /\ last'.helloMacPassed
           /\ last'.helloCase = "bad_dictionary")
        => LET a == last'.source
               before == IF m_peers[a] # NoPeer THEN m_peers[a]
                         ELSE NewPeer(0, last'.helloIdentity)
           IN /\ Len(trace') = 1 /\ trace'[1].reason = "INVALID_OBJECT"
              /\ m_peers'[a].m_vProto = before.m_vProto
              /\ m_peers'[a].m_probe = before.m_probe
              /\ rxLog' = <<>> ]_vars

\* C37: for any number of due addresses the loops of m_sendPendingWhois
\* end with every address in exactly one WHOIS packet, none left out and
\* none twice; each packet has the next value of the root key's message
\* counter as its packet ID, and that ID is registered with Expect before
\* the packet is sent.
C37_EveryDueAddressSentOnce ==
    [][ (Called /\ last'.kind = "whois_send")
        => LET toSend == targ'[1].toSend
               ev == last'.records
           IN /\ \A a \in toSend :
                    Cardinality({ i \in 1..Len(wire') : a \in wire'[i].addrs }) = 1
              /\ \A i \in 1..Len(wire') :
                    /\ wire'[i].addrs \subseteq toSend
                    /\ wire'[i].count = Cardinality(wire'[i].addrs)
                    /\ wire'[i].count > 0
                    /\ wire'[i].pid = msgCounter + i
                    /\ [pid |-> wire'[i].pid, sent |-> now] \in expect'
                    /\ \E m, n \in 1..Len(ev) :
                          /\ m < n
                          /\ ev[m] = [step |-> "expect_sending", pid |-> wire'[i].pid]
                          /\ ev[n] = [step |-> "send", pid |-> wire'[i].pid]
              /\ msgCounter' = msgCounter + Len(wire')
              /\ (toSend = {} => wire' = <<>>) ]_vars

\* Three due addresses have gone out in two packets.
C37_ThreeAddressesTwoPackets ==
    /\ last.kind = "whois_send"
    /\ Cardinality(targ[1].toSend) = 3
    /\ Len(wire) = 2
    /\ wire[1].count = 2 /\ wire[2].count = 1

\* C38: when a packet of an unknown source is filed and there is no root,
\* or none of the root's paths is alive, no WHOIS is sent and lastRetry
\* and retries of every queue entry stay as they were; when the root has
\* an alive path and the source's retry is due, every due address is sent.
C38_NoRootPathNothingSent ==
    [][ (Called /\ last'.kind = "queued")
        => LET root == TopologyRoot(m_peers, m_rootPeers)
               alive == /\ root # NoPeer
                        /\ \E i \in 1..Len(root.m_paths) :
                              PathAlive(m_paths'[root.m_paths[i]], now)
               due == { a \in AllAddrs :
                           /\ m_whoisQueue'[a] # NoItem
                           /\ (now - m_whoisQueue[a].lastRetry) >= ZT_WHOIS_RETRY_DELAY }
           IN /\ ~alive
                 => ( /\ wire' = <<>>
                      /\ \A a \in AllAddrs :
                            /\ m_whoisQueue'[a].lastRetry = m_whoisQueue[a].lastRetry
                            /\ m_whoisQueue'[a].retries = m_whoisQueue[a].retries )
              /\ (alive /\ last'.source \in due)
                 => \A a \in due : \E i \in 1..Len(wire') : a \in wire'[i].addrs ]_vars

\* C39: the n-th packet filed for a source (n counted from 0) is kept in
\* slot n mod ZT_VL1_MAX_WHOIS_WAITING_PACKETS with its own size, and
\* nothing else of the queue's waiting packets changes: an entry holds at
\* most that many packets, the most recent ones.
C39_WaitingPacketsAreMostRecent ==
    [][ (Called /\ last'.kind = "queued")
        => LET a == last'.source
               n == m_whoisQueue[a].waitingPacketCount
               slot == (n % ZT_VL1_MAX_WHOIS_WAITING_PACKETS) + 1
           IN /\ m_whoisQueue'[a].waitingPacketCount = n + 1
              /\ DOMAIN m_whoisQueue'[a].waitingPacket = 1..ZT_VL1_MAX_WHOIS_WAITING_PACKETS
              /\ \A i \in 1..ZT_VL1_MAX_WHOIS_WAITING_PACKETS :
                    IF i = slot
                    THEN /\ m_whoisQueue'[a].waitingPacket[i] = last'.pid
                         /\ m_whoisQueue'[a].waitingPacketSize[i] = last'.len
                    ELSE /\ m_whoisQueue'[a].waitingPacket[i] = m_whoisQueue[a].waitingPacket[i]
                         /\ m_whoisQueue'[a].waitingPacketSize[i]
                               = m_whoisQueue[a].waitingPacketSize[i]
              /\ \A b \in AllAddrs \ {a} :
                    /\ m_whoisQueue'[b].waitingPacketCount = m_whoisQueue[b].waitingPacketCount
                    /\ m_whoisQueue'[b].waitingPacket = m_whoisQueue[b].waitingPacket
                    /\ m_whoisQueue'[b].waitingPacketSize = m_whoisQueue[b].waitingPacketSize ]_vars

\* A third packet of V has taken the place of the first.
C39_ThirdPacketReplacesFirst ==
    /\ m_whoisQueue[AddrV].waitingPacketCount = 3
    /\ m_whoisQueue[AddrV].waitingPacket = <<2, 1>>
    /\ m_whoisQueue[AddrV].waitingPacketSize = <<ZT_PROTO_MIN_PACKET_LENGTH, 64>>
    /\ last.kind = "queued" /\ last.pid = 2

\* C40: every Trace emitter posts exactly one ZT_EVENT_TRACE event whose
\* evSize is the size of its struct and whose evType is the
\* ZT_TraceEventType value of the emitter's own kind, so the events of two
\* calls that are of different kinds never carry the same evType.
C40_EventTypeIsOwnKind ==
    [][ (Called /\ last'.kind = "trace")
        => /\ Len(trace') = 1
           /\ trace'[1].event = "ZT_EVENT_TRACE"
           /\ trace'[1].evSize = <<"sizeof", trace'[1].struct>>
           /\ trace'[1].struct \in DOMAIN ZT_TraceEventType
           /\ trace'[1].evType = ZT_TraceEventType[trace'[1].struct]
           /\ (last.kind = "trace" /\ trace[1].struct # trace'[1].struct)
              => trace[1].evType # trace'[1].evType ]_vars

====
